---- MODULE Spec2Model ----
(***************************************************************************)
(* Rivet: orchestrator job store and state machine, the runner's poll /    *)
(* lease / execute loop and the Lua stage drivers.                         *)
(*                                                                         *)
(* Every repository call of the orchestrator is one SQL statement and is   *)
(* modelled as one atomic step; a service function that issues several     *)
(* statements is a sequence of steps that other request handlers may       *)
(* interleave with.                                                        *)
(***************************************************************************)
EXTENDS Integers, Sequences, FiniteSets, TLC

\* ---------------------------------------------------------------- bounds
NumJobs == 2
NumClients == 2
MaxClock == 2
MaxStages == 2
MaxPolls == 2
MaxEntries == 3
ConfiguredMaxParallelJobs == 1
MaxElapsed == 2
MaxPipelines == 2
MaxDepth == 2
MaxExecs == 2
MaxStageCalls == 2
MaxRows == 4
MaxStamp == 2
MaxNow == 3
SweepPeriod == 1
timeout_seconds == 1
\* Config::job_timeout, in the unit elapsed is counted in
job_timeout == 1

Jobs == 1..NumJobs
Clients == 1..NumClients

\* ------------------------------------------------------------ job domain
JobStatus == {"Queued", "Running", "Succeeded", "Failed", "Cancelled", "TimedOut"}
TerminalStatus == {"Succeeded", "Failed", "Cancelled", "TimedOut"}

RunnerIds == {"r1", "r2"}
\* Option::None of the nullable columns
Null == 0
NoRunner == "null"
\* a formatted message: its fixed text and the stage name it interpolates
\* (stages are named by their position; 0 when the text names no stage)
Msg(text, stage) == [text |-> text, stage |-> stage]
NoMsg == Msg("null", 0)
NoResult == [present |-> FALSE, success |-> FALSE, exit_code |-> 0, error_message |-> NoMsg]

\* JobResult::success()
JobResult_success == [present |-> TRUE, success |-> TRUE, exit_code |-> 0, error_message |-> NoMsg]
\* JobResult::error(error_message, exit_code)
JobResult_error(error_message, exit_code) ==
    [present |-> TRUE, success |-> FALSE, exit_code |-> exit_code, error_message |-> error_message]
\* JobResult::failed(error_message)
JobResult_failed(error_message) == JobResult_error(error_message, 1)

\* ------------------------------------------------------ launch parameters
\* the input names a pipeline may declare and a caller may supply
InputNames == {"k", "n"}

\* serde_json::Value: its variant and its literal
JsonValue(type, v) == [type |-> type, v |-> v]
\* Option::None, and a key a HashMap does not hold
NoValue == JsonValue("none", "")
\* 2^53 and 2^53 + 1: the smallest pair of integers with the same f64 image
JsonValues ==
    {JsonValue("string", "a"), JsonValue("string", "b"),
     JsonValue("number", "9007199254740992"), JsonValue("number", "9007199254740993"),
     JsonValue("bool", "true")}

\* HashMap<String, serde_json::Value>
CallerMappings == [InputNames -> JsonValues \cup {NoValue}]
NoParameters == [k \in InputNames |-> NoValue]

\* a row that was never inserted
NoJob == [exists |-> FALSE, status |-> "Queued", requested_at |-> Null, started_at |-> Null,
          completed_at |-> Null, runner_id |-> NoRunner, result |-> NoResult,
          parameters |-> NoParameters]

VARIABLES
    jobs,        \* orchestrator: the jobs table
    clock,       \* orchestrator: chrono::Utc::now()
    req,         \* orchestrator: the requests being handled
    driver,      \* stage driver: which of the two drivers runs the job
    definition,  \* stage driver: the pipeline being executed
    ex,          \* stage driver: position, invocations made, result
    exLogs,      \* stage driver: the log buffer it appends to
    sent,        \* stage driver: the CompleteJobRequest built from its result
    max_parallel_jobs,  \* runner: Config::max_parallel_jobs
    poller,      \* runner: JobPoller::run / poll_and_execute_once
    polled,      \* runner: the jobs the last fetch_scheduled_jobs returned
    worker,      \* runner: the task spawned for each polled job
    logBuf,      \* runner: each worker's InMemoryLogBuffer
    shipper,     \* runner: each worker's background log sender
    appended,    \* log path: how many entries the job's callables have appended
    log_buffer,  \* log path: the worker's InMemoryLogBuffer
    drained,     \* log path: the batches the drain calls have returned, in order
    log_sender,  \* log path: the task start_log_sender spawned
    flusher,     \* log path: the worker around and after execute_job
    job_logs,    \* log path: the rows the orchestrator has inserted for the job
    inputs,      \* launch: PipelineDefinition::inputs of the pipeline being launched
    request,     \* launch: CreateJob::parameters of the launch request
    launch,      \* launch: the response to the last launch request
    elapsed,     \* worker: time since execute_job was called
    capabilities,   \* registry: what the runner declared when it registered
    pipeline_tags,  \* registry: the runner tags of each job's pipeline
    create_req,  \* pipelines: the CreatePipeline request being handled
    created,     \* pipelines: the response to it
    pipelines,   \* pipelines: the pipelines table
    containers,       \* container manager: registry, image -> container name
    containers_lock,  \* container manager: who holds the registry mutex
    stack,            \* container manager: stack of active container names
    runtime,          \* podman: the containers that exist
    starts,           \* podman: successful `podman run` per image
    ensure,           \* each caller's position inside ensure_container_running
    frames,           \* Lua: the container.run calls whose fn is executing
    stage_call,       \* Lua: the stage script the executor is calling
    execs,            \* podman: the container of each `podman exec`, in order
    lua_result,       \* Lua: outcome of the last host function call
    manager,          \* container manager: live, cleaned up, dropped
    log_rows,    \* log store: the rows of job_logs for one job, in arrival order
    log_read,    \* log store: the answer to the last GET logs
    runners,        \* runner registry: the rows of the runners table
    utc_now,        \* runner registry: the orchestrator's wall clock
    registry_resp,  \* runner registry: the last request and its answer
    globals,        \* sandbox: the names defined in the Lua globals
    sandbox_pc,     \* sandbox: not created yet, or ready for user code
    effects,        \* sandbox: the facilities user code has used
    errors,         \* sandbox: the facilities user code failed to use
    task_pc,            \* worker task: position in execute_job_with_logging
    execution_service,  \* worker task: the ExecutionService behind the Arc<dyn>
    reachable,          \* worker task: whether its calls reach the orchestrator
    task_sender,        \* worker task: the task spawned by start_log_sender
    task_buffer,        \* worker task: entries in the job's log buffer
    received,           \* worker task: the calls the orchestrator received
    task_note           \* worker task: lease, final shipment, completion, exit

orchVars == <<jobs, clock, req>>
execVars == <<driver, definition, ex, exLogs, sent>>
runnerVars == <<max_parallel_jobs, poller, polled, worker, logBuf, shipper>>
logVars == <<appended, log_buffer, drained, log_sender, flusher, job_logs>>
launchVars == <<inputs, request, launch>>
timeVars == <<elapsed>>
registryVars == <<capabilities, pipeline_tags>>
pipelineVars == <<create_req, created, pipelines>>
containerVars == <<containers, containers_lock, stack, runtime, starts, ensure,
                   frames, stage_call, execs, lua_result, manager>>
logStoreVars == <<log_rows, log_read>>
runnerRegistryVars == <<runners, utc_now, registry_resp>>
sandboxVars == <<globals, sandbox_pc, effects, errors>>
taskVars == <<task_pc, execution_service, reachable, task_sender, task_buffer,
              received, task_note>>
laterVars == <<logStoreVars, runnerRegistryVars, sandboxVars, taskVars>>
otherVars == <<timeVars, registryVars, pipelineVars, containerVars, laterVars>>
nonContainerVars == <<orchVars, execVars, runnerVars, logVars, launchVars,
                      timeVars, registryVars, pipelineVars, laterVars>>
nonOrchVars == <<execVars, runnerVars, logVars, launchVars, otherVars>>
vars == <<jobs, clock, req, driver, definition, ex, exLogs, sent,
          max_parallel_jobs, poller, polled, worker, logBuf, shipper,
          appended, log_buffer, drained, log_sender, flusher, job_logs,
          inputs, request, launch, elapsed, capabilities, pipeline_tags,
          create_req, created, pipelines,
          containers, containers_lock, stack, runtime, starts, ensure,
          frames, stage_call, execs, lua_result, manager,
          log_rows, log_read, runners, utc_now, registry_resp,
          globals, sandbox_pc, effects, errors,
          task_pc, execution_service, reachable, task_sender, task_buffer,
          received, task_note>>

\* --------------------------------------------------- repository::job
\* serde_json::to_value of the parameters: the JSON object stored in the
\* column, one member per key the map holds
to_value(parameters) == {<<k, parameters[k]>> : k \in {n \in InputNames : parameters[n] # NoValue}}
\* JobRow -> Job: serde_json::from_value(row.parameters).unwrap_or_default()
from_value(object) ==
    [k \in InputNames |->
        IF \E m \in object : m[1] = k
        THEN (CHOOSE m \in object : m[1] = k)[2]
        ELSE NoValue]

\* INSERT INTO jobs (id, pipeline_id, status, requested_at, parameters)
create(js, j, now, parameters) ==
    [js EXCEPT ![j] = [exists |-> TRUE, status |-> "Queued", requested_at |-> now,
                       started_at |-> Null, completed_at |-> Null,
                       runner_id |-> NoRunner, result |-> NoResult,
                       parameters |-> from_value(to_value(parameters))]]

\* SELECT ... WHERE id = $1
find_by_id(js, j) == js[j]

\* mutant of update_status_to_running: the UPDATE also resets the parameters
update_status_to_running_resets(js, j, runner_id, now) ==
    IF js[j].exists
    THEN [js EXCEPT ![j].status = "Running", ![j].started_at = now, ![j].runner_id = runner_id,
                    ![j].parameters = NoParameters]
    ELSE js

\* UPDATE jobs SET status = 'Running', started_at = now, runner_id = $3 WHERE id = $4
update_status_to_running(js, j, runner_id, now) ==
    IF js[j].exists
    THEN [js EXCEPT ![j].status = "Running", ![j].started_at = now, ![j].runner_id = runner_id]
    ELSE js

\* UPDATE jobs SET status = $1, completed_at = now WHERE id = $3
update_status_to_completed(js, j, status, now) ==
    IF js[j].exists
    THEN [js EXCEPT ![j].status = status, ![j].completed_at = now]
    ELSE js

\* UPDATE jobs SET result_success = ..., result_exit_code = ..., ... WHERE id = $5
update_result(js, j, result) ==
    IF js[j].exists THEN [js EXCEPT ![j].result = result] ELSE js

\* mutant of IsOrderedListing: ORDER BY requested_at DESC
IsOrderedListing_desc(js, status, s) ==
    /\ Len(s) = Cardinality({j \in Jobs : js[j].exists /\ js[j].status = status})
    /\ \A i \in 1..Len(s) : js[s[i]].exists /\ js[s[i]].status = status
    /\ \A i, k \in 1..Len(s) : i < k =>
          /\ s[i] # s[k]
          /\ js[s[i]].requested_at >= js[s[k]].requested_at

\* the sequences a query "WHERE status = $1 ORDER BY requested_at ASC" may
\* return: every matching row once, requested_at non-decreasing; rows with
\* equal requested_at come in whatever order the store produces them
IsOrderedListing(js, status, s) ==
    /\ Len(s) = Cardinality({j \in Jobs : js[j].exists /\ js[j].status = status})
    /\ \A i \in 1..Len(s) : js[s[i]].exists /\ js[s[i]].status = status
    /\ \A i, k \in 1..Len(s) : i < k =>
          /\ s[i] # s[k]
          /\ js[s[i]].requested_at <= js[s[k]].requested_at

find_by_status(js, status) ==
    {s \in UNION {[1..n -> Jobs] : n \in 0..NumJobs} : IsOrderedListing(js, status, s)}

\* --------------------------------------------------- service::job
\* mutant of validate_completion_status: every status passes
validate_completion_status_any(status) == status \in JobStatus

validate_completion_status(status) == status \in TerminalStatus

\* rivet_lua::InputDefinition; options is Option<Vec<serde_json::Value>>
NoOptions == [present |-> FALSE, list |-> <<>>]
SomeOptions(list) == [present |-> TRUE, list |-> list]
InputDefinition(input_type, required, default, options) ==
    [declared |-> TRUE, input_type |-> input_type, required |-> required,
     default |-> default, options |-> options]
\* a name PipelineDefinition::inputs does not hold
Undeclared ==
    [declared |-> FALSE, input_type |-> "", required |-> FALSE,
     default |-> NoValue, options |-> NoOptions]

\* parse_inputs_from_table: "type" is any string, "default" and "options" are
\* converted but not compared with the type
InputTypes == {"string", "number", "bool", "int"}
Defaults == {NoValue, JsonValue("string", "b")}
OptionLists ==
    {NoOptions,
     SomeOptions(<<JsonValue("number", "9007199254740992"), JsonValue("string", "a")>>)}
InputDefinitions ==
    {InputDefinition(t, r, d, o) :
        t \in InputTypes, r \in BOOLEAN, d \in Defaults, o \in OptionLists}
Schemas == [InputNames -> InputDefinitions \cup {Undeclared}]
Declared(schema) == {k \in InputNames : schema[k].declared}

\* JobError::ValidationError: what the message says and the input it names
\* ("Unknown input type: {}" names the type, not the input)
ValidationError(kind, key) == [kind |-> kind, key |-> key]
NoError == ValidationError("none", "")

\* serde_json::Number::as_f64: the nearest double, ties to even; integers
\* above 2^53 lose their low bits
as_f64(n) == IF n = "9007199254740993" THEN "9007199254740992" ELSE n

validate_input_type(name, value, expected_type) ==
    IF expected_type \notin {"string", "number", "bool"}
    THEN ValidationError("UnknownInputType", "")
    ELSE IF value.type # expected_type
    THEN ValidationError("BadInputType", name)
    ELSE NoError

\* options.iter().any(|opt| match (value, opt) { ... })
value_matches(value, options) ==
    \E i \in 1..Len(options) :
        LET opt == options[i] IN
        CASE value.type = "number" /\ opt.type = "number" -> as_f64(value.v) = as_f64(opt.v)
          [] value.type = "string" /\ opt.type = "string" -> value.v = opt.v
          [] value.type = "bool" /\ opt.type = "bool" -> value.v = opt.v
          [] OTHER -> FALSE

\* mutant of check_input: a required input without a default may be left out
check_input_optional(key, input_def, parameters) ==
    IF parameters[key] = NoValue
    THEN NoError
    ELSE LET typed == validate_input_type(key, parameters[key], input_def.input_type) IN
         IF typed # NoError THEN typed
         ELSE IF input_def.options.present
                 /\ ~value_matches(parameters[key], input_def.options.list)
         THEN ValidationError("NotInOptions", key)
         ELSE NoError

\* validate_and_enrich_parameters, one iteration of its loop: the error it
\* returns for this input, if any
check_input(key, input_def, parameters) ==
    IF parameters[key] = NoValue
    THEN IF input_def.default = NoValue /\ input_def.required
         THEN ValidationError("MissingRequiredInput", key)
         ELSE NoError
    ELSE LET typed == validate_input_type(key, parameters[key], input_def.input_type) IN
         IF typed # NoError THEN typed
         ELSE IF input_def.options.present
                 /\ ~value_matches(parameters[key], input_def.options.list)
         THEN ValidationError("NotInOptions", key)
         ELSE NoError

\* mutant of enrich: defaults are not adopted
enrich_nothing(schema, parameters) == parameters

\* validate_and_enrich_parameters, the inserts of its loop: a declared input
\* the caller left out gets its default; every other key is left as it is
enrich(schema, parameters) ==
    [k \in InputNames |->
        IF schema[k].declared /\ parameters[k] = NoValue
        THEN schema[k].default
        ELSE parameters[k]]

Ok(parameters) == [ok |-> TRUE, parameters |-> parameters, error |-> NoError]
Err(error) == [ok |-> FALSE, parameters |-> NoParameters, error |-> error]

\* validate_and_enrich_parameters: the loop visits the inputs in the order
\* of a HashMap and returns at the first error, so every input in error may
\* be the one that is reported
validate_and_enrich_parameters(schema, parameters) ==
    LET failing == {k \in Declared(schema) : check_input(k, schema[k], parameters) # NoError} IN
    IF failing = {}
    THEN {Ok(enrich(schema, parameters))}
    ELSE {Err(check_input(k, schema[k], parameters)) : k \in failing}

\* ------------------------------------------------ request handlers
\* one record per in-flight HTTP request: the operation, its arguments, the
\* handler's position and the response it produced
IdleReq == [op |-> "none", pc |-> "idle", job |-> 1, runner_id |-> NoRunner,
            status |-> "Queued", result |-> NoResult, resp |-> "none",
            parameters |-> NoParameters]

Handlers == {<<"client", c>> : c \in Clients}
\* the requests of the runner's workers, one worker per polled job
W(j) == <<"worker", j>>
AllHandlers == Handlers \cup {W(j) : j \in Jobs}

\* the result payloads a caller sends with a terminal status
ResultFor(status) ==
    IF status = "Succeeded" THEN JobResult_success ELSE JobResult_failed(Msg("Stage failed", 1))

Tick ==
    /\ clock < MaxClock
    /\ clock' = clock + 1
    /\ UNCHANGED <<jobs, req, nonOrchVars>>

\* the response to a launch request; job is the row it inserted
NoLaunch == [resp |-> "none", error |-> NoError, job |-> 0]

\* POST /api/pipeline/launch: job_service::launch_job, for a pipeline that
\* exists and parses: validate_and_enrich_parameters, then
\* job_repository::create (job ids stand for the order of creation)
launch_job(j) ==
    /\ ~jobs[j].exists
    /\ \A k \in Jobs : k < j => jobs[k].exists
    /\ \E r \in validate_and_enrich_parameters(inputs, request) :
          /\ jobs' = IF r.ok THEN create(jobs, j, clock, r.parameters) ELSE jobs
          /\ launch' = [resp |-> IF r.ok THEN "200" ELSE "400",
                        error |-> r.error,
                        job |-> IF r.ok THEN j ELSE 0]
    /\ UNCHANGED <<clock, req, inputs, request, execVars, runnerVars, logVars, otherVars>>

\* a caller launches the pipeline again with the parameters of a job it
\* launched before
Relaunch(j) ==
    /\ jobs[j].exists
    /\ request' = jobs[j].parameters
    /\ launch' = NoLaunch
    /\ UNCHANGED <<inputs, orchVars, execVars, runnerVars, logVars, otherVars>>

\* a request that was answered: what is left of it is the response
Responded(r, resp) == [r EXCEPT !.pc = "done", !.resp = resp, !.result = NoResult]

\* requests are numbered in the order they arrive
NextArrival(h) ==
    /\ req[h].op = "none"
    /\ \A c \in Clients : c < h[2] => req[<<"client", c>>].op # "none"

\* POST /api/jobs/execute/{id} arrives; reserve_job_for_execution, first
\* statement: find_by_id and the state check (the pipeline lookup that follows
\* reads a table no modelled request writes)
reserve_find(j, r) ==
    LET job == find_by_id(jobs, j) IN
    [IdleReq EXCEPT !.op = "lease", !.job = j, !.runner_id = r,
                    !.pc = IF job.exists /\ job.status = "Queued" THEN "update" ELSE "done",
                    !.resp = IF ~job.exists THEN "404"
                             ELSE IF job.status # "Queued" THEN "400"
                             ELSE "none"]

LeaseFind(h, j, r) ==
    /\ NextArrival(h)
    /\ req' = [req EXCEPT ![h] = reserve_find(j, r)]
    /\ UNCHANGED <<jobs, clock, nonOrchVars>>

\* reserve_job_for_execution, update_status_to_running and the re-read whose
\* row is returned to the caller
LeaseUpdate(h) ==
    /\ req[h].op = "lease" /\ req[h].pc = "update"
    /\ jobs' = update_status_to_running(jobs, req[h].job, req[h].runner_id, clock)
    /\ req' = [req EXCEPT ![h] = [Responded(req[h], "200") EXCEPT
                                     !.parameters = find_by_id(jobs', req[h].job).parameters]]
    /\ UNCHANGED <<clock, nonOrchVars>>

\* POST /api/jobs/{id}/complete arrives; complete_job: find_by_id,
\* validate_completion_status, the warning for a job that is not Running
complete_find(j, status, result) ==
    LET job == find_by_id(jobs, j)
        ok == job.exists /\ validate_completion_status(status) IN
    IF ok
    THEN [IdleReq EXCEPT !.op = "complete", !.job = j, !.status = status,
                         !.result = result, !.pc = "update"]
    ELSE Responded([IdleReq EXCEPT !.op = "complete", !.job = j, !.status = status],
                   IF ~job.exists THEN "404" ELSE "400")

CompleteFind(h, j, status, result) ==
    /\ NextArrival(h)
    /\ req' = [req EXCEPT ![h] = complete_find(j, status, result)]
    /\ UNCHANGED <<jobs, clock, nonOrchVars>>

\* complete_job: update_status_to_completed
CompleteUpdateStatus(h) ==
    /\ req[h].op = "complete" /\ req[h].pc = "update"
    /\ jobs' = update_status_to_completed(jobs, req[h].job, req[h].status, clock)
    /\ req' = [req EXCEPT ![h] = IF req[h].result.present
                                  THEN [req[h] EXCEPT !.pc = "result"]
                                  ELSE Responded(req[h], "204")]
    /\ UNCHANGED <<clock, nonOrchVars>>

\* complete_job: update_result when the request carries a result
CompleteUpdateResult(h) ==
    /\ req[h].op = "complete" /\ req[h].pc = "result"
    /\ jobs' = update_result(jobs, req[h].job, req[h].result)
    /\ req' = [req EXCEPT ![h] = Responded(req[h], "204")]
    /\ UNCHANGED <<clock, nonOrchVars>>

\* cancel_job is called: find_by_id and the match on the status read
CancelFind(h, j) ==
    /\ NextArrival(h)
    /\ LET job == find_by_id(jobs, j)
           ok == job.exists /\ job.status \in {"Queued", "Running"} IN
         req' = [req EXCEPT ![h] =
                    [IdleReq EXCEPT !.op = "cancel", !.job = j,
                                    !.pc = IF ok THEN "update" ELSE "done",
                                    !.resp = IF ~job.exists THEN "404"
                                             ELSE IF ~ok THEN "400" ELSE "none"]]
    /\ UNCHANGED <<jobs, clock, nonOrchVars>>

\* cancel_job: update_status_to_completed(Cancelled)
CancelUpdate(h) ==
    /\ req[h].op = "cancel" /\ req[h].pc = "update"
    /\ jobs' = update_status_to_completed(jobs, req[h].job, "Cancelled", clock)
    /\ req' = [req EXCEPT ![h] = Responded(req[h], "200")]
    /\ UNCHANGED <<clock, nonOrchVars>>

\* ------------------------------------------------------- stage drivers
\* The repository holds two drivers that walk the stages of a pipeline:
\* LuaExecutor::execute_pipeline (lua/executor.rs) and
\* StandardExecutionService::execute_job (service/execution.rs). Both are
\* written as functions from the driver's state to its next state and the log
\* entries it appends in that step.
Drivers == {"LuaExecutor", "StandardExecutionService"}

\* a pipeline source: whether it evaluates, and for each stage whether it
\* declares a condition (Option<Function>)
Definitions ==
    {[meta |-> "ok", parse |-> p, stages |-> st] :
        p \in {"ok", "error"},
        st \in UNION {[1..n -> [condition : BOOLEAN]] : n \in 1..MaxStages}}

LogEntry(level, message) == [level |-> level, message |-> message]

\* one invocation of user code, or its return
Ev(kind, stage, outcome) == [kind |-> kind, stage |-> stage, outcome |-> outcome]

ExecStart == [pc |-> "start", idx |-> 0, trace |-> <<>>, result |-> NoResult]

Step(e, out) == [e |-> e, out |-> out]

\* mutant of LoopNext: the loop index is not advanced
LoopNext_same_stage(e, def, out) ==
    IF e.idx < Len(def.stages)
    THEN [e |-> [e EXCEPT !.pc = "stage"], out |-> out]
    ELSE [e |-> [e EXCEPT !.pc = "returned", !.result = JobResult_success], out |-> out]

\* the end of one iteration of "for (idx, stage) in stages.iter().enumerate()":
\* go to the next stage, or leave the loop and return success
LoopNext(e, def, out) ==
    IF e.idx < Len(def.stages)
    THEN Step([e EXCEPT !.idx = e.idx + 1, !.pc = "stage"], out)
    ELSE Step([e EXCEPT !.pc = "returned", !.result = JobResult_success],
              out \o <<LogEntry("Info", Msg("Pipeline completed successfully", 0))>>)

\* execute_pipeline: create_sandbox, parse_pipeline_definition, log_and_fail
execute_pipeline_parse(e, def) ==
    IF def.parse = "error"
    THEN Step([e EXCEPT !.pc = "returned",
                        !.result = JobResult_failed(Msg("Failed to parse pipeline definition", 0))],
              <<LogEntry("Error", Msg("Failed to parse pipeline definition", 0))>>)
    ELSE Step([e EXCEPT !.pc = "stage", !.idx = 1],
              <<LogEntry("Info", Msg("Starting pipeline", 0))>>)

\* mutant of execute_pipeline_condition: a condition that returned false is
\* treated like one that returned true
execute_pipeline_condition_runs_anyway(e, def, outcome) ==
    LET seen == [e EXCEPT !.trace = Append(e.trace, Ev("condition", e.idx, outcome))] IN
    IF ~def.stages[e.idx].condition
    THEN Step([e EXCEPT !.pc = "script"], <<>>)
    ELSE IF outcome \in {"true", "false"}
    THEN Step([seen EXCEPT !.pc = "script"], <<>>)
    ELSE Step([seen EXCEPT !.pc = "returned",
                           !.result = JobResult_error(Msg("Stage condition failed", e.idx), 1)],
              <<>>)

\* execute_pipeline, top of the loop body: the "Starting stage" entry and the
\* condition, when the stage has one (evaluate_condition); outcome is what the
\* condition callable does
execute_pipeline_condition(e, def, outcome) ==
    LET i == e.idx
        start == <<LogEntry("Info", Msg("Starting stage", i))>>
        seen == [e EXCEPT !.trace = Append(e.trace, Ev("condition", i, outcome))] IN
    IF ~def.stages[i].condition
    THEN Step([e EXCEPT !.pc = "script"], start)
    ELSE IF outcome = "true"
    THEN Step([seen EXCEPT !.pc = "script"], start)
    ELSE IF outcome = "false"
    THEN LoopNext(seen, def, start \o <<LogEntry("Info", Msg("Stage skipped (condition not met)", i))>>)
    ELSE Step([seen EXCEPT !.pc = "returned",
                           !.result = JobResult_error(Msg("Stage condition failed", i), 1)],
              start \o <<LogEntry("Error", Msg("Stage condition evaluation failed", i))>>)

\* execute_stage: script.call(()) is entered
execute_stage_call(e) ==
    Step([e EXCEPT !.pc = "in_script",
                   !.trace = Append(e.trace, Ev("script", e.idx, "called"))], <<>>)

\* mutant of StageFailed: the error is recorded and the stage is tried again
StageFailed_retries(e) ==
    [e EXCEPT !.trace = Append(e.trace, Ev("return", e.idx, "raise")), !.pc = "stage"]

\* what a raising stage script makes of the driver's state
StageFailed(e) ==
    [e EXCEPT !.trace = Append(e.trace, Ev("return", e.idx, "raise")),
              !.pc = "returned",
              !.result = JobResult_error(Msg("Stage failed", e.idx), 1)]

\* execute_pipeline, after execute_stage returned Ok or Err
execute_pipeline_return(e, def, outcome) ==
    IF outcome = "raise"
    THEN Step(StageFailed(e), <<LogEntry("Error", Msg("Stage failed", e.idx))>>)
    ELSE LoopNext([e EXCEPT !.trace = Append(e.trace, Ev("return", e.idx, "ok"))], def,
                  <<LogEntry("Info", Msg("Stage completed", e.idx))>>)

\* execute_job: the initial entry, create_execution_context, the two
\* evaluations of the pipeline source
execute_job_load(e, def) ==
    IF def.parse = "error"
    THEN Step([e EXCEPT !.pc = "returned",
                        !.result = JobResult_error(Msg("Failed to load pipeline", 0), 1)],
              <<LogEntry("Info", Msg("Starting pipeline", 0)),
                LogEntry("Error", Msg("Failed to load pipeline", 0))>>)
    ELSE Step([e EXCEPT !.pc = "stage", !.idx = 1],
              <<LogEntry("Info", Msg("Starting pipeline", 0))>>)

\* execute_job, top of the loop body: the "Starting stage" entry, then
\* execute_stage fetches stages[idx + 1].script and calls it
execute_job_stage(e) ==
    Step([e EXCEPT !.pc = "in_script",
                   !.trace = Append(e.trace, Ev("script", e.idx, "called"))],
         <<LogEntry("Info", Msg("Starting stage", e.idx))>>)

\* execute_job, after execute_stage returned Ok or Err
execute_job_return(e, def, outcome) ==
    IF outcome = "raise"
    THEN Step(StageFailed(e), <<LogEntry("Error", Msg("Stage failed", e.idx))>>)
    ELSE LoopNext([e EXCEPT !.trace = Append(e.trace, Ev("return", e.idx, "ok"))], def,
                  <<LogEntry("Info", Msg("Stage completed", e.idx))>>)

\* HttpJobRepository::complete_job: the request body built from a result
NoRequest == [present |-> FALSE, status |-> "Queued", result |-> NoResult]
CompleteJobRequest(result) ==
    [present |-> TRUE,
     status |-> IF result.success THEN "Succeeded" ELSE "Failed",
     result |-> result]

\* --- the drivers as actions of one job's execution
Applied(step) ==
    /\ ex' = step.e
    /\ exLogs' = exLogs \o step.out
    /\ UNCHANGED <<driver, definition, sent, orchVars, launchVars, otherVars, runnerVars, logVars>>

LuaParse ==
    /\ driver = "LuaExecutor" /\ ex.pc = "start"
    /\ Applied(execute_pipeline_parse(ex, definition))

LuaCondition ==
    /\ driver = "LuaExecutor" /\ ex.pc = "stage"
    /\ \E outcome \in {"true", "false", "raise"} :
          /\ ~definition.stages[ex.idx].condition => outcome = "true"
          /\ Applied(execute_pipeline_condition(ex, definition, outcome))

LuaScriptCall ==
    /\ driver = "LuaExecutor" /\ ex.pc = "script"
    /\ Applied(execute_stage_call(ex))

LuaScriptReturn ==
    /\ driver = "LuaExecutor" /\ ex.pc = "in_script"
    /\ \E outcome \in {"ok", "raise"} :
          Applied(execute_pipeline_return(ex, definition, outcome))

StdLoad ==
    /\ driver = "StandardExecutionService" /\ ex.pc = "start"
    /\ Applied(execute_job_load(ex, definition))

StdScriptCall ==
    /\ driver = "StandardExecutionService" /\ ex.pc = "stage"
    /\ Applied(execute_job_stage(ex))

StdScriptReturn ==
    /\ driver = "StandardExecutionService" /\ ex.pc = "in_script"
    /\ \E outcome \in {"ok", "raise"} :
          Applied(execute_job_return(ex, definition, outcome))

\* time passes while execute_job runs; execute_job_with_logging awaits it
\* without a timer, and neither driver reads Config::job_timeout
TimePasses ==
    /\ ex.pc # "returned"
    /\ elapsed < MaxElapsed
    /\ elapsed' = elapsed + 1
    /\ UNCHANGED <<orchVars, launchVars, execVars, runnerVars, logVars,
                   registryVars, pipelineVars, containerVars, laterVars>>

\* the worker passes the driver's result to job_repo.complete_job
ReportCompletion ==
    /\ ex.pc = "returned" /\ ~sent.present
    /\ sent' = CompleteJobRequest(ex.result)
    /\ UNCHANGED <<driver, definition, ex, exLogs, orchVars, launchVars, otherVars, runnerVars, logVars>>

\* ------------------------------------------------------------ the runner
\* One runner process: JobPoller::run polls the orchestrator, spawns one task
\* (worker) per job of the listing and waits for all of them; each worker
\* leases its job, drives the stages with StandardExecutionService, ships its
\* log buffer and reports the result.
RunnerId == "r1"
OtherRunnerId == "r2"

\* Config::new: max_parallel_jobs: 2; Config::from_env reads MAX_PARALLEL_JOBS
DefaultMaxParallelJobs == 2

\* the pipeline sources the runner is given: parse_pipeline_metadata may fail
\* (then nothing else of the source is evaluated); the stages carry no
\* condition, which StandardExecutionService does not look at
RunnerDefinitions ==
    {[meta |-> m[1], parse |-> m[2], stages |-> [i \in 1..MaxStages |-> [condition |-> FALSE]]] :
        m \in {<<"ok", "ok">>, <<"ok", "error">>, <<"error", "error">>}}

NoWorker == [pc |-> "none", lease |-> "none", ex |-> ExecStart,
             shipped |-> FALSE, completes |-> 0]
NoShipper == "none"

\* the workers that were started and have not finished
InFlight == {j \in Jobs : worker[j].pc \notin {"none", "done"}}

\* the range of a listing
Listed(s) == {s[i] : i \in 1..Len(s)}

\* poll_and_execute_once: fetch_scheduled_jobs (GET /api/jobs/scheduled ->
\* list_scheduled_jobs -> find_by_status(Queued)), then spawn_job_task for
\* every job of the listing
Poll ==
    /\ poller.pc = "idle" /\ poller.polls < MaxPolls
    /\ \E listing \in find_by_status(jobs, "Queued") :
          /\ polled' = listing
          /\ poller' = [pc |-> IF Len(listing) = 0 THEN "idle" ELSE "waiting",
                        polls |-> poller.polls + 1, fetched |-> TRUE]
          /\ worker' = [j \in Jobs |-> IF j \in Listed(listing)
                                       THEN [NoWorker EXCEPT !.pc = "claim"]
                                       ELSE worker[j]]
          /\ logBuf' = [j \in Jobs |-> IF j \in Listed(listing) THEN <<>> ELSE logBuf[j]]
          /\ shipper' = [j \in Jobs |-> IF j \in Listed(listing) THEN NoShipper ELSE shipper[j]]
    /\ UNCHANGED <<max_parallel_jobs, orchVars, launchVars, otherVars, execVars, logVars>>

\* poll_and_execute_once: fetch_scheduled_jobs fails, the cycle ends with Err
PollFails ==
    /\ poller.pc = "idle" /\ poller.polls < MaxPolls
    /\ poller' = [poller EXCEPT !.polls = poller.polls + 1, !.fetched = FALSE]
    /\ UNCHANGED <<max_parallel_jobs, polled, worker, logBuf, shipper,
                   orchVars, launchVars, otherVars, execVars, logVars>>

\* poll_and_execute_once: "for handle in handles { handle.await }" is through
PollerJoin ==
    /\ poller.pc = "waiting"
    /\ \A j \in Listed(polled) : worker[j].pc = "done"
    /\ poller' = [poller EXCEPT !.pc = "idle"]
    /\ UNCHANGED <<max_parallel_jobs, polled, worker, logBuf, shipper,
                   orchVars, launchVars, otherVars, execVars, logVars>>

\* mutant of ClaimFailed: the worker goes on as if the lease had been granted
ClaimFailed_goes_on(wk, why) == [wk EXCEPT !.pc = "parse", !.lease = why]

\* execute_job_with_logging: claim_job(...).await.context(...)? returned Err
\* (why: "refused" for an error status, "error" for a failed exchange), the
\* task ends there
ClaimFailed(wk, why) == [wk EXCEPT !.pc = "done", !.lease = why]

\* execute_job_with_logging starts: HttpJobRepository::claim_job posts
\* /api/jobs/execute/{id}; the request reaches reserve_job_for_execution
WorkerClaim(j) ==
    /\ worker[j].pc = "claim"
    /\ req' = [req EXCEPT ![W(j)] = reserve_find(j, RunnerId)]
    /\ worker' = [worker EXCEPT ![j].pc = "claiming"]
    /\ UNCHANGED <<jobs, clock, launchVars, otherVars, execVars, logVars, max_parallel_jobs, poller, polled,
                   logBuf, shipper>>

\* claim_job: the request does not reach the orchestrator (send() fails)
WorkerClaimUnsent(j) ==
    /\ worker[j].pc = "claim"
    /\ worker' = [worker EXCEPT ![j] = ClaimFailed(worker[j], "error")]
    /\ UNCHANGED <<orchVars, launchVars, otherVars, execVars, logVars, max_parallel_jobs, poller, polled,
                   logBuf, shipper>>

\* claim_job returns: Ok(JobExecutionInfo) on a success status that was read,
\* Err otherwise (error status, or the response was lost on the way). On Ok
\* update_job_status follows: it PUTs to /api/jobs/{id}/status, a route the
\* orchestrator does not have, and its Err is only logged
WorkerClaimReturn(j) ==
    /\ worker[j].pc = "claiming" /\ req[W(j)].pc = "done"
    /\ \E lost \in BOOLEAN :
          worker' = [worker EXCEPT ![j] =
                        IF lost THEN ClaimFailed(worker[j], "error")
                        ELSE IF req[W(j)].resp = "200"
                        THEN [worker[j] EXCEPT !.pc = "parse", !.lease = "ok"]
                        ELSE ClaimFailed(worker[j], "refused")]
    /\ req' = [req EXCEPT ![W(j)] = IdleReq]
    /\ UNCHANGED <<jobs, clock, launchVars, otherVars, execVars, logVars, max_parallel_jobs, poller, polled,
                   logBuf, shipper>>

\* execute_job_with_logging: parse_pipeline_metadata. On Err complete_job is
\* called with a failed result and the task returns Err whatever the answer;
\* on Ok the log buffer is created and start_log_sender spawns the shipper
WorkerParse(j) ==
    /\ worker[j].pc = "parse"
    /\ IF definition.meta = "error"
       THEN LET r == CompleteJobRequest(JobResult_error(Msg("Failed to parse pipeline", 0), 1)) IN
            /\ worker' = [worker EXCEPT ![j].pc = "completing",
                                        ![j].completes = worker[j].completes + 1]
            /\ req' = [req EXCEPT ![W(j)] = complete_find(j, r.status, r.result)]
            /\ UNCHANGED <<logBuf, shipper>>
       ELSE /\ worker' = [worker EXCEPT ![j].pc = "exec"]
            /\ logBuf' = [logBuf EXCEPT ![j] = <<>>]
            /\ shipper' = [shipper EXCEPT ![j] = "running"]
            /\ UNCHANGED req
    /\ UNCHANGED <<jobs, clock, launchVars, otherVars, execVars, logVars, max_parallel_jobs, poller, polled>>

\* a step of StandardExecutionService::execute_job inside the worker: the
\* entries it logs go to the worker's buffer (LogBufferService::add_entry)
WorkerApplied(j, step) ==
    /\ worker' = [worker EXCEPT ![j].ex = step.e]
    /\ logBuf' = [logBuf EXCEPT ![j] = logBuf[j] \o step.out]
    /\ UNCHANGED <<orchVars, launchVars, otherVars, execVars, logVars, max_parallel_jobs, poller, polled, shipper>>

WorkerLoad(j) ==
    /\ worker[j].pc = "exec" /\ worker[j].ex.pc = "start"
    /\ WorkerApplied(j, execute_job_load(worker[j].ex, definition))

WorkerStageCall(j) ==
    /\ worker[j].pc = "exec" /\ worker[j].ex.pc = "stage"
    /\ WorkerApplied(j, execute_job_stage(worker[j].ex))

WorkerStageReturn(j) ==
    /\ worker[j].pc = "exec" /\ worker[j].ex.pc = "in_script"
    /\ \E outcome \in {"ok", "raise"} :
          WorkerApplied(j, execute_job_return(worker[j].ex, definition, outcome))

\* start_log_sender, one turn of the loop: log_buffer.drain(), an empty batch
\* is skipped, otherwise send_logs is called with it; whether the call
\* succeeds or fails (then the error is only logged) the batch has left the
\* buffer
ShipperTick(j) ==
    /\ shipper[j] = "running"
    /\ logBuf[j] # <<>>
    /\ logBuf' = [logBuf EXCEPT ![j] = <<>>]
    /\ worker' = [worker EXCEPT ![j].shipped = TRUE]
    /\ UNCHANGED <<orchVars, launchVars, otherVars, execVars, logVars, max_parallel_jobs, poller, polled, shipper>>

\* execute_job_with_logging after execute_job returned: log_sender.abort(),
\* log_buffer.drain(), send_logs of what remained (its Err is only logged)
WorkerFlush(j) ==
    /\ worker[j].pc = "exec" /\ worker[j].ex.pc = "returned"
    /\ shipper' = [shipper EXCEPT ![j] = "aborted"]
    /\ worker' = [worker EXCEPT ![j].pc = "report",
                                ![j].shipped = worker[j].shipped \/ logBuf[j] # <<>>]
    /\ logBuf' = [logBuf EXCEPT ![j] = <<>>]
    /\ UNCHANGED <<orchVars, launchVars, otherVars, execVars, logVars, max_parallel_jobs, poller, polled>>

\* execute_job_with_logging: job_repo.complete_job(job_id, result); the
\* request reaches complete_job of the orchestrator
WorkerComplete(j) ==
    /\ worker[j].pc = "report"
    /\ LET r == CompleteJobRequest(worker[j].ex.result) IN
         req' = [req EXCEPT ![W(j)] = complete_find(j, r.status, r.result)]
    /\ worker' = [worker EXCEPT ![j].pc = "completing",
                                ![j].completes = worker[j].completes + 1]
    /\ UNCHANGED <<jobs, clock, launchVars, otherVars, execVars, logVars, max_parallel_jobs, poller, polled,
                   logBuf, shipper>>

\* complete_job returns, Ok or Err: the task ends
WorkerCompleteReturn(j) ==
    /\ worker[j].pc = "completing" /\ req[W(j)].pc = "done"
    /\ worker' = [worker EXCEPT ![j].pc = "done"]
    /\ req' = [req EXCEPT ![W(j)] = IdleReq]
    /\ UNCHANGED <<jobs, clock, launchVars, otherVars, execVars, logVars, max_parallel_jobs, poller, polled,
                   logBuf, shipper>>

\* ------------------------------------------------------------ the log path
\* One worker's log entries on their way to the orchestrator: the job's
\* callables append to the worker's buffer, the task spawned by
\* start_log_sender drains it and posts the batch, and after execute_job the
\* worker aborts that task, drains what is left and posts it. Entries are
\* named by the order in which they were appended.
Entries == 1..MaxEntries

\* the first k elements of a sequence
Prefix(q, k) == SubSeq(q, 1, k)

\* InMemoryLogBuffer::add_entry, Context::add_log: lock, push
add_entry(buf, entry) == Append(buf, entry)

\* mutant of drain: the entries are returned and stay in the buffer
drain_keeps(buf) == [out |-> buf, buf |-> buf]

\* InMemoryLogBuffer::drain, Context::drain_logs: lock, drain(..).collect()
drain(buf) == [out |-> buf, buf |-> <<>>]

\* log_repository::add_entries: one INSERT per entry, in the order of the
\* batch; an error stops the loop after the k rows already inserted
add_entries(rows, entries, k) == rows \o Prefix(entries, k)

NoBatch == [present |-> FALSE, entries |-> <<>>]
Batch(entries) == [present |-> TRUE, entries |-> entries]

\* a callable of the job logs an entry while execute_job runs
LogAppend ==
    /\ flusher.pc = "executing" /\ appended < MaxEntries
    /\ appended' = appended + 1
    /\ log_buffer' = add_entry(log_buffer, appended + 1)
    /\ UNCHANGED <<drained, log_sender, flusher, job_logs, orchVars, launchVars, otherVars, execVars, runnerVars>>

\* start_log_sender, a tick: log_buffer.drain(); an empty batch is skipped
\* (that turn changes nothing), another is handed to send_logs
LogSenderDrain ==
    /\ log_sender.state = "waiting" /\ log_buffer # <<>>
    /\ LET d == drain(log_buffer) IN
         /\ log_buffer' = d.buf
         /\ drained' = Append(drained, d.out)
         /\ log_sender' = [state |-> "sending", batch |-> Batch(d.out)]
    /\ UNCHANGED <<appended, flusher, job_logs, orchVars, launchVars, otherVars, execVars, runnerVars>>

\* start_log_sender: send_logs returns to the task that is still running. The
\* POST stored the whole batch, or failed after k rows (k = 0: it never
\* arrived); the Err is logged and the batch is not put back
LogSenderSend ==
    /\ log_sender.state = "sending"
    /\ \E k \in 0..Len(log_sender.batch.entries) :
          job_logs' = add_entries(job_logs, log_sender.batch.entries, k)
    /\ log_sender' = [state |-> "waiting", batch |-> NoBatch]
    /\ UNCHANGED <<appended, log_buffer, drained, flusher, orchVars, launchVars, otherVars, execVars, runnerVars>>

\* execute_job_with_logging after execute_job returned: log_sender.abort()
\* (abort does not wait; a POST the task had sent stays on its way),
\* log_buffer.drain(); send_logs follows when the batch is not empty
LogFlushDrain ==
    /\ flusher.pc = "executing"
    /\ LET d == drain(log_buffer) IN
         /\ log_buffer' = d.buf
         /\ drained' = IF d.out = <<>> THEN drained ELSE Append(drained, d.out)
         /\ flusher' = IF d.out = <<>>
                       THEN [pc |-> "done", batch |-> NoBatch, sent |-> "none"]
                       ELSE [pc |-> "sending", batch |-> Batch(d.out), sent |-> "none"]
    /\ log_sender' = [log_sender EXCEPT !.state = "aborted"]
    /\ UNCHANGED <<appended, job_logs, orchVars, launchVars, otherVars, execVars, runnerVars>>

\* the POST of an aborted sender task reaches add_entries, whole or in part,
\* or never does
LogAbortedSendArrives ==
    /\ log_sender.state = "aborted" /\ log_sender.batch.present
    /\ \E k \in 0..Len(log_sender.batch.entries) :
          job_logs' = add_entries(job_logs, log_sender.batch.entries, k)
    /\ log_sender' = [log_sender EXCEPT !.batch = NoBatch]
    /\ UNCHANGED <<appended, log_buffer, drained, flusher, orchVars, launchVars, otherVars, execVars, runnerVars>>

\* execute_job_with_logging: send_logs(job_id, remaining_logs) returns; an Err
\* is logged ("Don't fail the job just because log sending failed")
LogFlushSend ==
    /\ flusher.pc = "sending"
    /\ \E k \in 0..Len(flusher.batch.entries) :
          /\ job_logs' = add_entries(job_logs, flusher.batch.entries, k)
          /\ flusher' = [pc |-> "done", batch |-> NoBatch,
                         sent |-> IF k = Len(flusher.batch.entries) THEN "ok" ELSE "err"]
    /\ UNCHANGED <<appended, log_buffer, drained, log_sender, orchVars, launchVars, otherVars, execVars, runnerVars>>

\* the worker has created the buffer and started the sender; execute_job runs
LogsIdle ==
    /\ appended = 0
    /\ log_buffer = <<>>
    /\ drained = <<>>
    /\ log_sender = [state |-> "waiting", batch |-> NoBatch]
    /\ flusher = [pc |-> "executing", batch |-> NoBatch, sent |-> "none"]
    /\ job_logs = <<>>

RunnerIdle ==
    /\ max_parallel_jobs = DefaultMaxParallelJobs
    /\ poller = [pc |-> "idle", polls |-> 0, fetched |-> FALSE]
    /\ polled = <<>>
    /\ worker = [j \in Jobs |-> NoWorker]
    /\ logBuf = [j \in Jobs |-> <<>>]
    /\ shipper = [j \in Jobs |-> NoShipper]

\* ------------------------------------------------------ pipeline creation
\* A script is described by what the two parsers look at: whether it
\* evaluates to a table, whether the table has a name, its inputs (none, one
\* with a type, one without), its stages field (missing, an empty table, one
\* stage) and whether that stage has a name and a script function.
Scripts ==
    [syntax : BOOLEAN, has_name : BOOLEAN, inputs : {"none", "typed", "untyped"},
     stages : {"missing", "empty", "one"}, stage_name : BOOLEAN, stage_script : BOOLEAN]

\* CreatePipeline: the script and whether the request's name is the script's
CreatePipelineRequests == [script : Scripts, name_matches : BOOLEAN]

\* rivet_lua::parse_pipeline_metadata: eval, name, inputs (type), stages
\* (parse_stages: name of every stage, at least one stage)
parse_pipeline_metadata(script) ==
    IF ~script.syntax THEN "error"
    ELSE IF ~script.has_name THEN "error"
    ELSE IF script.inputs = "untyped" THEN "error"
    ELSE IF script.stages = "missing" THEN "error"
    ELSE IF script.stages = "one" /\ ~script.stage_name THEN "error"
    ELSE IF script.stages = "empty" THEN "error"
    ELSE "ok"

\* rivet_lua::parse_pipeline_definition: eval, name, inputs (type), stages
\* (parse_stages_from_table: name and script of every stage, at least one)
parse_pipeline_definition(script) ==
    IF ~script.syntax THEN "error"
    ELSE IF ~script.has_name THEN "error"
    ELSE IF script.inputs = "untyped" THEN "error"
    ELSE IF script.stages = "missing" THEN "error"
    ELSE IF script.stages = "one" /\ ~script.stage_name THEN "error"
    ELSE IF script.stages = "one" /\ ~script.stage_script THEN "error"
    ELSE IF script.stages = "empty" THEN "error"
    ELSE "ok"

\* mutant of validate_pipeline_request: the script is not parsed
validate_pipeline_request_names_only(r) ==
    IF ~r.name_matches THEN "ValidationError"
    ELSE "ok"

\* pipeline_service::validate_pipeline_request for a request with a name and
\* a script that are not empty: the metadata parse, then the name comparison
\* (metadata.stages.is_empty() cannot hold after a successful parse)
validate_pipeline_request(r) ==
    IF parse_pipeline_metadata(r.script) = "error" THEN "ValidationError"
    ELSE IF ~r.name_matches THEN "ValidationError"
    ELSE "ok"

\* pipeline_repository::create: parse_pipeline_definition in a sandbox, its
\* error wrapped in sqlx::Error::Protocol, then the INSERT
pipeline_create(rows, r) ==
    IF parse_pipeline_definition(r.script) = "error"
    THEN [err |-> "DatabaseError", rows |-> rows]
    ELSE [err |-> "none", rows |-> Append(rows, r.script)]

NoCreated == [resp |-> "none"]

\* POST /api/pipeline/create: create_pipeline of the handler and the service;
\* ValidationError answers 400 (BadRequest), DatabaseError answers 500
create_pipeline ==
    /\ created.resp = "none"
    /\ LET v == validate_pipeline_request(create_req)
           c == pipeline_create(pipelines, create_req) IN
         IF v # "ok"
         THEN /\ created' = [resp |-> "400"]
              /\ UNCHANGED pipelines
         ELSE /\ created' = [resp |-> IF c.err = "none" THEN "200" ELSE "500"]
              /\ pipelines' = c.rows
    /\ UNCHANGED <<create_req, timeVars, registryVars, containerVars, laterVars,
                   orchVars, launchVars, execVars, runnerVars, logVars>>

\* another create request arrives
CreateArrives(r) ==
    /\ created.resp # "none"
    /\ Len(pipelines) < MaxPipelines
    /\ create_req' = r
    /\ created' = NoCreated
    /\ UNCHANGED <<pipelines, timeVars, registryVars, containerVars, laterVars,
                   orchVars, launchVars, execVars, runnerVars, logVars>>

\* ------------------------------------------------------- container manager
Images == {"A", "B"}
NoImage == "none"
NoHandle == <<>>

\* the Lua thread of the job, and another thread that shares the manager
Callers == {"lua", "other"}
NoCaller == "none"

\* ContainerManager::generate_container_name: the job id and a hash of the
\* image, the same name for the same image
generate_container_name(image) == <<"rivet", image>>

\* stack.push
push(st, name) == Append(st, name)

\* ContainerManager::pop_container: Vec::pop, nothing to pop on an empty stack
pop_container(st) == IF st = <<>> THEN st ELSE SubSeq(st, 1, Len(st) - 1)

\* mutant of current_container: the bottom of the stack
current_container_bottom(st) == IF st = <<>> THEN NoHandle ELSE st[1]

\* ContainerManager::current_container: stack.last()
current_container(st) == IF st = <<>> THEN NoHandle ELSE st[Len(st)]

EnsureIdle == [pc |-> "idle", image |-> NoImage]

\* mutant of ensure_lookup: the registry is read without its mutex
ensure_lookup_unlocked(c, image) ==
    /\ manager.pc = "live"
    /\ ensure[c].pc = "idle"
    /\ IF containers[image] # NoHandle
       THEN UNCHANGED <<ensure, containers_lock>>
       ELSE /\ ensure' = [ensure EXCEPT ![c] = [pc |-> "starting", image |-> image]]
            /\ containers_lock' = c
    /\ UNCHANGED <<containers, runtime, starts>>

\* ensure_container_running up to `podman run`: the registry mutex is taken
\* and the image looked up; a hit returns the recorded name and releases
\* the mutex, a miss keeps it while the container is started
ensure_lookup(c, image) ==
    /\ manager.pc = "live"
    /\ ensure[c].pc = "idle"
    /\ containers_lock = NoCaller
    /\ IF containers[image] # NoHandle
       THEN UNCHANGED <<ensure, containers_lock>>
       ELSE /\ ensure' = [ensure EXCEPT ![c] = [pc |-> "starting", image |-> image]]
            /\ containers_lock' = c
    /\ UNCHANGED <<containers, runtime, starts>>

\* ensure_container_running from `podman run` on: a start that succeeded is
\* registered, one that failed bails out; the mutex is released either way
ensure_started(c, ok) ==
    /\ ensure[c].pc = "starting"
    /\ LET image == ensure[c].image
           name == generate_container_name(image) IN
         IF ok
         THEN /\ runtime' = runtime \cup {name}
              /\ starts' = [starts EXCEPT ![image] = @ + 1]
              /\ containers' = [containers EXCEPT ![image] = name]
         ELSE UNCHANGED <<containers, runtime, starts>>
    /\ ensure' = [ensure EXCEPT ![c] = EnsureIdle]
    /\ containers_lock' = NoCaller

Frame(image, before) == [image |-> image, before |-> before]

LuaResult(op, error, container) == [op |-> op, error |-> error, container |-> container]

NoLuaResult == LuaResult("none", "none", NoHandle)

\* the stage script is executing Lua code (no host function is in progress)
LuaRunning == stage_call.pc = "running" /\ ensure["lua"].pc = "idle"

\* container.run(image, fn) up to `podman run`: push_container calls
\* ensure_container_running; on a hit the name is pushed and fn is called
container_run(image) ==
    /\ LuaRunning
    /\ Len(frames) < MaxDepth
    /\ ensure_lookup("lua", image)
    /\ IF containers[image] # NoHandle
       THEN /\ stack' = push(stack, containers[image])
            /\ frames' = Append(frames, Frame(image, stack))
       ELSE UNCHANGED <<stack, frames>>
    /\ UNCHANGED <<stage_call, execs, lua_result, manager, nonContainerVars>>

\* container.run(image, fn) from `podman run` on: a started container is
\* pushed and fn is called; a failed start raises the runtime error
container_run_started(ok) ==
    /\ stage_call.pc = "running"
    /\ ensure_started("lua", ok)
    /\ IF ok
       THEN /\ stack' = push(stack, generate_container_name(ensure["lua"].image))
            /\ frames' = Append(frames, Frame(ensure["lua"].image, stack))
            /\ UNCHANGED lua_result
       ELSE /\ lua_result' = LuaResult("container.run", "Failed to start container", NoHandle)
            /\ UNCHANGED <<stack, frames>>
    /\ UNCHANGED <<stage_call, execs, manager, nonContainerVars>>

\* mutant of container_run_return: the container is popped only when fn
\* returned normally
container_run_return_pop_on_success(raises) ==
    /\ LuaRunning
    /\ frames # <<>>
    /\ stack' = IF raises THEN stack ELSE pop_container(stack)
    /\ frames' = SubSeq(frames, 1, Len(frames) - 1)
    /\ lua_result' = LuaResult("container.run", IF raises THEN "raised" ELSE "none", NoHandle)
    /\ UNCHANGED <<containers, containers_lock, runtime, starts, ensure,
                   stage_call, execs, manager, nonContainerVars>>

\* container.run(image, fn) after fn: fn returned or raised, the container is
\* popped, fn's error is propagated
container_run_return(raises) ==
    /\ LuaRunning
    /\ frames # <<>>
    /\ stack' = pop_container(stack)
    /\ frames' = SubSeq(frames, 1, Len(frames) - 1)
    /\ lua_result' = LuaResult("container.run", IF raises THEN "raised" ELSE "none", NoHandle)
    /\ UNCHANGED <<containers, containers_lock, runtime, starts, ensure,
                   stage_call, execs, manager, nonContainerVars>>

\* process.run{...}: ContainerManager::exec runs `podman exec` in the current
\* container, or fails when the stack is empty
process_run ==
    /\ LuaRunning
    /\ Len(execs) < MaxExecs
    /\ IF current_container(stack) = NoHandle
       THEN /\ lua_result' = LuaResult("process.run", "No active container in stack", NoHandle)
            /\ UNCHANGED execs
       ELSE /\ lua_result' = LuaResult("process.run", "none", current_container(stack))
            /\ execs' = Append(execs, current_container(stack))
    /\ UNCHANGED <<containers, containers_lock, stack, runtime, starts, ensure,
                   frames, stage_call, manager, nonContainerVars>>

\* another thread calls ensure_container_running while the pipeline runs
other_ensure(image) ==
    /\ stage_call.pc # "done"
    /\ ensure_lookup("other", image)
    /\ UNCHANGED <<stack, frames, stage_call, execs, lua_result, manager, nonContainerVars>>

other_ensure_started(ok) ==
    /\ ensure_started("other", ok)
    /\ UNCHANGED <<stack, frames, stage_call, execs, lua_result, manager, nonContainerVars>>

NoStageCall == [pc |-> "idle", container |-> NoImage, before |-> <<>>, calls |-> 0]

\* LuaExecutor::execute_pipeline calls the script of the next stage; the
\* stage's container field is parsed into the definition and not read here
execute_stage(container) ==
    /\ manager.pc = "live"
    /\ stage_call.pc = "idle"
    /\ stage_call.calls < MaxStageCalls
    /\ stage_call' = [pc |-> "running", container |-> container, before |-> stack,
                      calls |-> stage_call.calls + 1]
    /\ UNCHANGED <<containers, containers_lock, stack, runtime, starts, ensure,
                   frames, execs, lua_result, manager, nonContainerVars>>

\* the stage script returns or raises; a raise, or the last stage, ends the
\* pipeline
execute_stage_return(raises, last) ==
    /\ LuaRunning
    /\ frames = <<>>
    /\ stage_call' = [stage_call EXCEPT
                         !.pc = IF raises \/ last \/ stage_call.calls = MaxStageCalls
                                THEN "done" ELSE "idle"]
    /\ UNCHANGED <<containers, containers_lock, stack, runtime, starts, ensure,
                   frames, execs, lua_result, manager, nonContainerVars>>

\* the registered containers
tracked(registry) == {registry[i] : i \in {i \in Images : registry[i] # NoHandle}}

\* mutant of removed: `podman rm -f` is not run
removed_none(registry, rm_ok) == {}

\* the containers cleanup removes: every registered one whose `podman rm -f`
\* succeeds
removed(registry, rm_ok) == tracked(registry) \cap rm_ok

Manager(pc, runs, result, failed) ==
    [pc |-> pc, runs |-> runs, result |-> result, failed |-> failed]

\* ContainerManager::cleanup: stop and force-remove every registered
\* container, warn about a remove that fails, return Ok; the registry keeps
\* its entries
cleanup(rm_ok, pc) ==
    /\ stage_call.pc = "done"
    /\ containers_lock = NoCaller
    /\ \A c \in Callers : ensure[c].pc = "idle"
    /\ runtime' = runtime \ removed(containers, rm_ok)
    /\ manager' = Manager(pc, manager.runs + 1, "Ok", tracked(containers) \ rm_ok)
    /\ UNCHANGED <<containers, containers_lock, stack, starts, ensure,
                   frames, stage_call, execs, lua_result, nonContainerVars>>

\* cleanup called on job termination
cleanup_explicit(rm_ok) ==
    /\ manager.pc = "live"
    /\ cleanup(rm_ok, "cleaned")

\* Drop for ContainerManager: cleanup once more, or for the first time
drop(rm_ok) ==
    /\ manager.pc \in {"live", "cleaned"}
    /\ cleanup(rm_ok, "dropped")

ContainersIdle ==
    /\ containers = [i \in Images |-> NoHandle]
    /\ containers_lock = NoCaller
    /\ stack = <<>>
    /\ runtime = {}
    /\ starts = [i \in Images |-> 0]
    /\ ensure = [c \in Callers |-> EnsureIdle]
    /\ frames = <<>>
    /\ stage_call = NoStageCall
    /\ execs = <<>>
    /\ lua_result = NoLuaResult
    /\ manager = Manager("live", 0, "none", {})

\* ---------------------------------------------------------------- log store
\* everything but the log store
nonLogStoreVars == <<orchVars, execVars, runnerVars, logVars, launchVars,
                     timeVars, registryVars, pipelineVars, containerVars,
                     runnerRegistryVars, sandboxVars, taskVars>>

Timestamps == 1..MaxStamp

\* a row of job_logs: the entry's timestamp (set by the runner) and its
\* message, here the number of its arrival
LogRow(timestamp, message) == [timestamp |-> timestamp, message |-> message]

\* the batches a runner posts: one or two entries with any timestamps
StampBatches == {<<t>> : t \in Timestamps} \cup (Timestamps \X Timestamps)

\* the entries of a batch, numbered from the rows already stored
RowsOf(stamps, n) == [i \in 1..Len(stamps) |-> LogRow(stamps[i], n + i)]

\* POST /api/jobs/{id}/logs: log_repository::add_entries inserts the entries
\* one by one and stops at the first INSERT that fails
log_add_entries(stamps, k) ==
    /\ Len(log_rows) + Len(stamps) <= MaxRows
    /\ log_rows' = add_entries(log_rows, RowsOf(stamps, Len(log_rows)), k)
    /\ UNCHANGED <<log_read, nonLogStoreVars>>

\* the orders `ORDER BY timestamp ASC` allows: every arrangement of the rows
\* with non-decreasing timestamps; rows with equal timestamps come in the
\* order the database happens to produce
OrderByTimestamp(rows) ==
    {[i \in 1..Len(rows) |-> rows[p[i]]] : p \in
        {q \in Permutations(1..Len(rows)) :
            \A i, k \in 1..Len(rows) : i < k => rows[q[i]].timestamp <= rows[q[k]].timestamp}}

\* mutant of find_by_job: the rows in insertion order, unsorted
find_by_job_unsorted(rows) == {rows}

\* log_repository::find_by_job
find_by_job(rows) == OrderByTimestamp(rows)

NoLogRead == [present |-> FALSE, entries |-> <<>>]

\* GET /api/jobs/{id}/logs
get_job_logs ==
    /\ \E listing \in find_by_job(log_rows) :
          log_read' = [present |-> TRUE, entries |-> listing]
    /\ UNCHANGED <<log_rows, nonLogStoreVars>>

LogStoreIdle ==
    /\ log_rows = <<>>
    /\ log_read = NoLogRead

\* ---------------------------------------------------------- runner registry
\* everything but the runner registry
nonRunnerRegistryVars == <<orchVars, execVars, runnerVars, logVars, launchVars,
                           timeVars, registryVars, pipelineVars, containerVars,
                           logStoreVars, sandboxVars, taskVars>>

RunnerRow(id, registered_at, last_heartbeat_at, status) ==
    [id |-> id, registered_at |-> registered_at,
     last_heartbeat_at |-> last_heartbeat_at, status |-> status]

\* the rows of a runner id
RowsOfRunner(rows, id) == {r \in rows : r.id = id}

\* mutant of register: a plain INSERT, without the ON CONFLICT clause
register_insert(rows, id, t) == rows \cup {RunnerRow(id, t, t, "Online")}

\* runner_repository::register: INSERT ... ON CONFLICT (id) DO UPDATE SET
\* last_heartbeat_at, status
register(rows, id, t) ==
    IF RowsOfRunner(rows, id) = {}
    THEN rows \cup {RunnerRow(id, t, t, "Online")}
    ELSE {IF r.id = id
          THEN [r EXCEPT !.last_heartbeat_at = t, !.status = "Online"]
          ELSE r : r \in rows}

\* runner_repository::update_heartbeat: UPDATE ... WHERE id
update_heartbeat(rows, id, t) ==
    {IF r.id = id
     THEN [r EXCEPT !.last_heartbeat_at = t, !.status = "Online"]
     ELSE r : r \in rows}

\* runner_repository::mark_stale_runners_offline: UPDATE ... WHERE
\* last_heartbeat_at < now - timeout AND status != Offline
mark_stale_runners_offline(rows, t, timeout) ==
    {IF r.last_heartbeat_at < t - timeout /\ r.status # "Offline"
     THEN [r EXCEPT !.status = "Offline"]
     ELSE r : r \in rows}

RegistryResp(op, id, existed, code) ==
    [op |-> op, id |-> id, existed |-> existed, code |-> code]

NoRegistryResp == RegistryResp("none", "none", FALSE, "none")

\* POST /api/runners/register with a runner id that is not empty
register_runner(id) ==
    /\ runners' = register(runners, id, utc_now)
    /\ registry_resp' = RegistryResp("register", id, RowsOfRunner(runners, id) # {}, "200")
    /\ UNCHANGED <<utc_now, nonRunnerRegistryVars>>

\* POST /api/runners/{id}/heartbeat: 404 when no row was updated
runner_heartbeat(id) ==
    /\ runners' = update_heartbeat(runners, id, utc_now)
    /\ registry_resp' = RegistryResp("heartbeat", id, RowsOfRunner(runners, id) # {},
                                     IF RowsOfRunner(runners, id) # {} THEN "204" ELSE "404")
    /\ UNCHANGED <<utc_now, nonRunnerRegistryVars>>

\* time passes at the orchestrator; main serves the router and starts no
\* periodic task
NowPasses ==
    /\ utc_now < MaxNow
    /\ utc_now' = utc_now + 1
    /\ UNCHANGED <<runners, registry_resp, nonRunnerRegistryVars>>

RunnerRegistryIdle ==
    /\ runners = {}
    /\ utc_now = 0
    /\ registry_resp = NoRegistryResp

\* ------------------------------------------------------------------ sandbox
\* everything but the sandbox
nonSandboxVars == <<orchVars, execVars, runnerVars, logVars, launchVars,
                    timeVars, registryVars, pipelineVars, containerVars,
                    logStoreVars, runnerRegistryVars, taskVars>>

\* the base library, which every Lua state has: the functions that matter
\* here
BaseGlobals == {"print", "pcall", "load", "dofile", "loadfile"}

\* the global each StdLib flag defines
StdLib == {"table", "string", "math", "coroutine", "io", "os", "package", "debug"}

\* the package library also defines require
LibGlobals(lib) == IF lib = "package" THEN {"package", "require"} ELSE {lib}

\* Lua::unsafe_new_with(libs, options)
unsafe_new_with(libs) == BaseGlobals \cup UNION {LibGlobals(lib) : lib \in libs}

\* mutant of remove_dangerous_globals: nothing is removed
remove_no_globals(g) == g

\* globals().set(name, Nil) for require, dofile and loadfile
remove_dangerous_globals(g) == g \ {"require", "dofile", "loadfile"}

\* register_pipeline_module
register_pipeline_module(g) == g \cup {"pipeline"}

\* rivet_lua::create_sandbox
create_sandbox ==
    /\ sandbox_pc = "none"
    /\ globals' = register_pipeline_module(remove_dangerous_globals(
                      unsafe_new_with({"table", "string", "math", "coroutine"})))
    /\ sandbox_pc' = "ready"
    /\ UNCHANGED <<effects, errors, nonSandboxVars>>

\* the names a script may try to use
Facilities == BaseGlobals \cup UNION {LibGlobals(lib) : lib \in StdLib} \cup {"pipeline"}

\* user code uses a global: a name that is not defined is nil, and calling or
\* indexing nil raises an error and does nothing else
script_uses(name) ==
    /\ sandbox_pc = "ready"
    /\ IF name \in globals
       THEN effects' = effects \cup {name} /\ UNCHANGED errors
       ELSE errors' = errors \cup {name} /\ UNCHANGED effects
    /\ UNCHANGED <<globals, sandbox_pc, nonSandboxVars>>

SandboxIdle ==
    /\ globals = {}
    /\ sandbox_pc = "none"
    /\ effects = {}
    /\ errors = {}

\* -------------------------------------------------------------- worker task
\* One task spawned by spawn_job_task, step by step through
\* execute_job_with_logging, with the task of start_log_sender beside it.
nonTaskVars == <<orchVars, execVars, runnerVars, logVars, launchVars,
                 timeVars, registryVars, pipelineVars, containerVars,
                 logStoreVars, runnerRegistryVars, sandboxVars>>

\* the implementations the Arc<dyn ExecutionService> may hold: the one of this
\* repository, whose execute_job returns Ok on every path, and one whose
\* execute_job may return Err
ExecutionServices == {"StandardExecutionService", "other"}

TaskNote(lease, final, completes, exit, logged) ==
    [lease |-> lease, final |-> final, completes |-> completes, exit |-> exit,
     logged |-> logged]

\* a call of the task is received when the orchestrator is reachable
Received(calls, call) == IF reachable THEN Append(calls, call) ELSE calls

\* job_repo.claim_job(job_id).await.context(...)?
TaskClaim(ok) ==
    /\ task_pc = "claim"
    /\ ok => reachable
    /\ task_pc' = IF ok THEN "parse" ELSE "done"
    /\ task_note' = [task_note EXCEPT !.lease = IF ok THEN "ok" ELSE "err",
                                      !.exit = IF ok THEN "none" ELSE "Err"]
    /\ UNCHANGED <<execution_service, reachable, task_sender, task_buffer, received,
                   nonTaskVars>>

\* mutant of TaskParse: a parse error returns Err without complete_job
TaskParse_returns(meta) ==
    /\ task_pc = "parse"
    /\ IF meta = "error"
       THEN /\ task_pc' = "done"
            /\ task_note' = [task_note EXCEPT !.exit = "Err"]
            /\ UNCHANGED <<task_sender, task_buffer, received>>
       ELSE /\ task_pc' = "exec"
            /\ task_buffer' = 0
            /\ task_sender' = "running"
            /\ UNCHANGED <<received, task_note>>
    /\ UNCHANGED <<execution_service, reachable, nonTaskVars>>

\* parse_pipeline_metadata: on Err complete_job is called with a failed
\* result (`let _ =`) and the task returns Err; on Ok the buffer is created
\* and start_log_sender spawns the sender
TaskParse(meta) ==
    /\ task_pc = "parse"
    /\ IF meta = "error"
       THEN /\ task_pc' = "done"
            /\ received' = Received(received, "complete")
            /\ task_note' = [task_note EXCEPT !.completes = @ + 1, !.exit = "Err"]
            /\ UNCHANGED <<task_sender, task_buffer>>
       ELSE /\ task_pc' = "exec"
            /\ task_buffer' = 0
            /\ task_sender' = "running"
            /\ UNCHANGED <<received, task_note>>
    /\ UNCHANGED <<execution_service, reachable, nonTaskVars>>

\* execute_job logs an entry, MaxEntries of them at most: log_buffer.add_entry
TaskLog ==
    /\ task_pc = "exec"
    /\ task_note.logged < MaxEntries
    /\ task_buffer' = task_buffer + 1
    /\ task_note' = [task_note EXCEPT !.logged = @ + 1]
    /\ UNCHANGED <<task_pc, execution_service, reachable, task_sender, received,
                   nonTaskVars>>

\* start_log_sender, a turn of its loop with entries in the buffer: drain,
\* send_logs; an Err is logged
SenderTick ==
    /\ task_sender = "running"
    /\ task_buffer > 0
    /\ task_buffer' = 0
    /\ received' = Received(received, "logs")
    /\ UNCHANGED <<task_pc, execution_service, reachable, task_sender, task_note,
                   nonTaskVars>>

\* execution_service.execute_job(...).await.context(...)?: Ok with a result,
\* or Err, on which the task returns at once
TaskExecuteReturns(outcome) ==
    /\ task_pc = "exec"
    /\ outcome = "Err" => execution_service # "StandardExecutionService"
    /\ task_pc' = IF outcome = "Err" THEN "done" ELSE "abort"
    /\ task_note' = [task_note EXCEPT !.exit = IF outcome = "Err" THEN "Err" ELSE "none"]
    /\ UNCHANGED <<execution_service, reachable, task_sender, task_buffer, received,
                   nonTaskVars>>

\* mutant of TaskAbort: the sender is left running
TaskAbort_keeps_sender ==
    /\ task_pc = "abort"
    /\ task_pc' = "drain"
    /\ UNCHANGED <<task_sender, execution_service, reachable, task_buffer, received, task_note,
                   nonTaskVars>>

\* log_sender.abort()
TaskAbort ==
    /\ task_pc = "abort"
    /\ task_sender' = "aborted"
    /\ task_pc' = "drain"
    /\ UNCHANGED <<execution_service, reachable, task_buffer, received, task_note,
                   nonTaskVars>>

\* log_buffer.drain(): nothing is sent when nothing remained
TaskDrain ==
    /\ task_pc = "drain"
    /\ task_buffer' = 0
    /\ task_pc' = IF task_buffer = 0 THEN "complete" ELSE "send"
    /\ task_note' = [task_note EXCEPT !.final = IF task_buffer = 0 THEN "empty" ELSE "sending"]
    /\ UNCHANGED <<execution_service, reachable, task_sender, received, nonTaskVars>>

\* log_repo.send_logs(job_id, remaining_logs).await: an Err is only logged
TaskSendFinal(ok) ==
    /\ task_pc = "send"
    /\ ok => reachable
    /\ received' = Received(received, "final_logs")
    /\ task_note' = [task_note EXCEPT !.final = IF ok THEN "ok" ELSE "err"]
    /\ task_pc' = "complete"
    /\ UNCHANGED <<execution_service, reachable, task_sender, task_buffer, nonTaskVars>>

\* job_repo.complete_job(job_id, result).await.context(...)?
TaskComplete(ok) ==
    /\ task_pc = "complete"
    /\ ok => reachable
    /\ received' = Received(received, "complete")
    /\ task_note' = [task_note EXCEPT !.completes = @ + 1,
                                      !.exit = IF ok THEN "Ok" ELSE "Err"]
    /\ task_pc' = "done"
    /\ UNCHANGED <<execution_service, reachable, task_sender, task_buffer, nonTaskVars>>

\* no task: the values of a task that ran to its end
TaskIdle ==
    /\ task_pc = "done"
    /\ execution_service = "StandardExecutionService"
    /\ reachable = TRUE
    /\ task_sender = "aborted"
    /\ task_buffer = 0
    /\ received = <<"complete">>
    /\ task_note = TaskNote("ok", "empty", 1, "Ok", 0)

LaterIdle ==
    /\ LogStoreIdle
    /\ RunnerRegistryIdle
    /\ SandboxIdle
    /\ TaskIdle

\* StandardCapabilitiesService::discover: the core modules
DiscoveredCapabilities == {"log", "env"}

\* the runner registered with the capabilities it discovered; the pipeline
\* of the first job carries no runner tag, the pipelines of the later jobs
\* ask for a capability the runner did not declare
OtherIdle ==
    /\ elapsed = 0
    /\ capabilities = DiscoveredCapabilities
    /\ pipeline_tags = [j \in Jobs |-> IF j = 1 THEN {} ELSE {"gpu"}]
    /\ create_req = [script |-> [syntax |-> TRUE, has_name |-> TRUE, inputs |-> "none",
                                 stages |-> "one", stage_name |-> TRUE, stage_script |-> TRUE],
                     name_matches |-> TRUE]
    /\ created = [resp |-> "200"]
    /\ pipelines = <<create_req.script>>
    /\ ContainersIdle
    /\ LaterIdle

ExecIdle ==
    /\ driver = "LuaExecutor"
    /\ definition = [meta |-> "ok", parse |-> "ok", stages |-> <<[condition |-> FALSE]>>]
    /\ ex = ExecStart
    /\ exLogs = <<>>
    /\ sent = NoRequest

\* a pipeline with a required input and an optional one that has a default,
\* and a caller that supplies the required one
DeployInputs ==
    [k \in InputNames |->
        IF k = "k"
        THEN InputDefinition("string", TRUE, NoValue, NoOptions)
        ELSE InputDefinition("string", FALSE, JsonValue("string", "b"), NoOptions)]
DeployRequest ==
    [k \in InputNames |-> IF k = "k" THEN JsonValue("string", "a") ELSE NoValue]

OrchIdle ==
    /\ jobs = [j \in Jobs |-> NoJob]
    /\ clock = 1
    /\ req = [h \in AllHandlers |-> IdleReq]
    /\ inputs = DeployInputs
    /\ request = DeployRequest
    /\ launch = NoLaunch

\* launches of any pipeline with any parameters
InitLaunch ==
    /\ jobs = [j \in Jobs |-> NoJob]
    /\ clock = 1
    /\ req = [h \in AllHandlers |-> IdleReq]
    /\ inputs \in Schemas
    /\ request \in CallerMappings
    /\ launch = NoLaunch
    /\ OtherIdle
    /\ ExecIdle
    /\ RunnerIdle
    /\ LogsIdle

NextLaunch ==
    \/ \E j \in Jobs : launch_job(j)
    \/ \E j \in Jobs : Relaunch(j)

SpecLaunch == InitLaunch /\ [][NextLaunch]_vars

\* create requests with any script, against an empty pipelines table
InitPipelines ==
    /\ OrchIdle
    /\ ExecIdle
    /\ RunnerIdle
    /\ LogsIdle
    /\ elapsed = 0
    /\ capabilities = DiscoveredCapabilities
    /\ pipeline_tags = [j \in Jobs |-> {}]
    /\ create_req \in CreatePipelineRequests
    /\ created = NoCreated
    /\ pipelines = <<>>
    /\ ContainersIdle
    /\ LaterIdle

NextPipelines ==
    \/ create_pipeline
    \/ \E r \in CreatePipelineRequests : CreateArrives(r)

SpecPipelines == InitPipelines /\ [][NextPipelines]_vars

\* batches posted for one job and reads of its logs
InitLogStore ==
    /\ OrchIdle
    /\ ExecIdle
    /\ RunnerIdle
    /\ LogsIdle
    /\ OtherIdle

NextLogStore ==
    \/ \E stamps \in StampBatches : \E k \in 0..Len(stamps) : log_add_entries(stamps, k)
    \/ get_job_logs

SpecLogStore == InitLogStore /\ [][NextLogStore]_vars

\* runners registering and sending heartbeats while time passes
InitRegistry ==
    /\ OrchIdle
    /\ ExecIdle
    /\ RunnerIdle
    /\ LogsIdle
    /\ OtherIdle

NextRegistry ==
    \/ \E id \in RunnerIds : register_runner(id)
    \/ \E id \in RunnerIds : runner_heartbeat(id)
    \/ NowPasses

SpecRegistry == InitRegistry /\ [][NextRegistry]_vars

\* a sandbox is created and user code runs in it
InitSandbox ==
    /\ OrchIdle
    /\ ExecIdle
    /\ RunnerIdle
    /\ LogsIdle
    /\ OtherIdle

NextSandbox ==
    \/ create_sandbox
    \/ \E name \in Facilities : script_uses(name)

SpecSandbox == InitSandbox /\ [][NextSandbox]_vars

\* a task was spawned for a job of the listing
InitTask ==
    /\ OrchIdle
    /\ ExecIdle
    /\ RunnerIdle
    /\ LogsIdle
    /\ elapsed = 0
    /\ capabilities = DiscoveredCapabilities
    /\ pipeline_tags = [j \in Jobs |-> {}]
    /\ create_req = [script |-> [syntax |-> TRUE, has_name |-> TRUE, inputs |-> "none",
                                 stages |-> "one", stage_name |-> TRUE, stage_script |-> TRUE],
                     name_matches |-> TRUE]
    /\ created = [resp |-> "200"]
    /\ pipelines = <<create_req.script>>
    /\ ContainersIdle
    /\ LogStoreIdle
    /\ RunnerRegistryIdle
    /\ SandboxIdle
    /\ task_pc = "claim"
    /\ execution_service \in ExecutionServices
    /\ reachable \in BOOLEAN
    /\ task_sender = "none"
    /\ task_buffer = 0
    /\ received = <<>>
    /\ task_note = TaskNote("none", "none", 0, "none", 0)

NextTask ==
    \/ \E ok \in BOOLEAN : TaskClaim(ok)
    \/ \E meta \in {"ok", "error"} : TaskParse(meta)
    \/ TaskLog
    \/ SenderTick
    \/ \E outcome \in {"success", "failure", "Err"} : TaskExecuteReturns(outcome)
    \/ TaskAbort
    \/ TaskDrain
    \/ \E ok \in BOOLEAN : TaskSendFinal(ok)
    \/ \E ok \in BOOLEAN : TaskComplete(ok)

SpecTask == InitTask /\ [][NextTask]_vars

\* the tasks of the runtime are scheduled: a step that stays possible is taken
SpecTaskFair == SpecTask /\ WF_vars(NextTask)

\* one job's pipeline run against its container manager
InitContainers ==
    /\ OrchIdle
    /\ ExecIdle
    /\ RunnerIdle
    /\ LogsIdle
    /\ OtherIdle

NextContainers ==
    \/ \E c \in Images \cup {NoImage} : execute_stage(c)
    \/ \E i \in Images : container_run(i)
    \/ \E ok \in BOOLEAN : container_run_started(ok)
    \/ \E raises \in BOOLEAN : container_run_return(raises)
    \/ process_run
    \/ \E raises, last \in BOOLEAN : execute_stage_return(raises, last)
    \/ \E i \in Images : other_ensure(i)
    \/ \E ok \in BOOLEAN : other_ensure_started(ok)
    \/ \E rm_ok \in SUBSET {generate_container_name(i) : i \in Images} : cleanup_explicit(rm_ok)
    \/ \E rm_ok \in SUBSET {generate_container_name(i) : i \in Images} : drop(rm_ok)

SpecContainers == InitContainers /\ [][NextContainers]_vars

InitExec ==
    /\ OrchIdle
    /\ OtherIdle
    /\ RunnerIdle
    /\ LogsIdle
    /\ driver \in Drivers
    /\ definition \in Definitions
    /\ ex = ExecStart
    /\ exLogs = <<>>
    /\ sent = NoRequest

NextExec ==
    \/ LuaParse
    \/ LuaCondition
    \/ LuaScriptCall
    \/ LuaScriptReturn
    \/ StdLoad
    \/ StdScriptCall
    \/ StdScriptReturn
    \/ TimePasses
    \/ ReportCompletion

SpecExec == InitExec /\ [][NextExec]_vars

\* the runner against the orchestrator; another runner leases jobs too
OtherRunner == <<"client", 1>>

InitRunner ==
    /\ OrchIdle
    /\ OtherIdle
    /\ driver = "StandardExecutionService"
    /\ definition \in RunnerDefinitions
    /\ ex = ExecStart /\ exLogs = <<>> /\ sent = NoRequest
    /\ max_parallel_jobs = ConfiguredMaxParallelJobs
    /\ poller = [pc |-> "idle", polls |-> 0, fetched |-> FALSE]
    /\ polled = <<>>
    /\ worker = [j \in Jobs |-> NoWorker]
    /\ logBuf = [j \in Jobs |-> <<>>]
    /\ shipper = [j \in Jobs |-> NoShipper]
    /\ LogsIdle

NextRunner ==
    \/ Tick
    \/ \E j \in Jobs : launch_job(j)
    \/ \E j \in Jobs : LeaseFind(OtherRunner, j, OtherRunnerId)
    \/ \E h \in {OtherRunner} \cup {W(j) : j \in Jobs} : LeaseUpdate(h)
    \/ \E j \in Jobs : CompleteUpdateStatus(W(j))
    \/ \E j \in Jobs : CompleteUpdateResult(W(j))
    \/ Poll
    \/ PollFails
    \/ PollerJoin
    \/ \E j \in Jobs : WorkerClaim(j)
    \/ \E j \in Jobs : WorkerClaimUnsent(j)
    \/ \E j \in Jobs : WorkerClaimReturn(j)
    \/ \E j \in Jobs : WorkerParse(j)
    \/ \E j \in Jobs : WorkerLoad(j)
    \/ \E j \in Jobs : WorkerStageCall(j)
    \/ \E j \in Jobs : WorkerStageReturn(j)
    \/ \E j \in Jobs : ShipperTick(j)
    \/ \E j \in Jobs : WorkerFlush(j)
    \/ \E j \in Jobs : WorkerComplete(j)
    \/ \E j \in Jobs : WorkerCompleteReturn(j)

SpecRunner == InitRunner /\ [][NextRunner]_vars

\* one worker's log path
InitLogs ==
    /\ OrchIdle
    /\ OtherIdle
    /\ ExecIdle
    /\ RunnerIdle
    /\ LogsIdle

NextLogs ==
    \/ LogAppend
    \/ LogSenderDrain
    \/ LogSenderSend
    \/ LogFlushDrain
    \/ LogAbortedSendArrives
    \/ LogFlushSend

SpecLogs == InitLogs /\ [][NextLogs]_vars

\* ------------------------------------------------ the orchestrator alone
\* POST /api/jobs/{id}/logs: log_service::add_log_entries for a batch of one
\* valid entry, the next of the job's entries; the insert succeeds
add_log_entries(entries) ==
    /\ Len(job_logs) + Len(entries) <= MaxEntries
    /\ job_logs' = add_entries(job_logs, entries, Len(entries))
    /\ UNCHANGED <<appended, log_buffer, drained, log_sender, flusher,
                   orchVars, launchVars, otherVars, execVars, runnerVars>>

Init ==
    /\ OrchIdle
    /\ OtherIdle
    /\ ExecIdle
    /\ RunnerIdle
    /\ LogsIdle

Next ==
    \/ Tick
    \/ \E j \in Jobs : launch_job(j)
    \/ \E h \in Handlers, j \in Jobs, r \in RunnerIds : LeaseFind(h, j, r)
    \/ \E h \in Handlers : LeaseUpdate(h)
    \/ \E h \in Handlers, j \in Jobs, s \in JobStatus, withResult \in BOOLEAN :
          CompleteFind(h, j, s, IF withResult THEN ResultFor(s) ELSE NoResult)
    \/ \E h \in Handlers : CompleteUpdateStatus(h)
    \/ \E h \in Handlers : CompleteUpdateResult(h)
    \/ \E h \in Handlers, j \in Jobs : CancelFind(h, j)
    \/ \E h \in Handlers : CancelUpdate(h)
    \/ add_log_entries(<<Len(job_logs) + 1>>)

Spec == Init /\ [][Next]_vars

\* ------------------------------------------------------------------ claims
Allowed == {<<"Queued", "Running">>, <<"Queued", "Cancelled">>,
            <<"Running", "Succeeded">>, <<"Running", "Failed">>,
            <<"Running", "TimedOut">>, <<"Running", "Cancelled">>}

LeaseCalls(j) == {h \in Handlers : req[h].op = "lease" /\ req[h].job = j /\ req[h].pc = "done"}

\* C1: of the lease calls made on one job, never mind how their store reads
\* and writes interleave, at most one is answered 200 and every other one is
\* answered 400.
C1_ExactlyOneLeaseWins ==
    \A j \in Jobs : \A h1, h2 \in LeaseCalls(j) :
        (h1 # h2 /\ req[h1].resp = "200") => req[h2].resp # "200"

\* C2: every change of a stored job status is one of the six allowed
\* transitions; a request for any other transition leaves the status as it is.
C2_OnlyAllowedTransitions ==
    [][\A j \in Jobs :
          (jobs[j].exists /\ jobs'[j].status # jobs[j].status)
             => <<jobs[j].status, jobs'[j].status>> \in Allowed]_vars

\* C3: a job in a terminal status keeps its status and completed_at, and the
\* result stored with it, whatever calls arrive later.
C3_TerminalStatesAreSinks ==
    [][\A j \in Jobs :
          (jobs[j].exists /\ jobs[j].status \in TerminalStatus)
             => /\ jobs'[j].status = jobs[j].status
                /\ jobs'[j].completed_at = jobs[j].completed_at
                /\ (jobs[j].result.present => jobs'[j].result = jobs[j].result)]_vars

\* C4: a runner_id that a lease has stored is never cleared or replaced, and
\* a job enters Running only from Queued (hence once, as no job returns to
\* Queued).
C4_RunnerIdStable ==
    [][\A j \in Jobs :
          /\ (jobs[j].runner_id # NoRunner => jobs'[j].runner_id = jobs[j].runner_id)
          /\ ((jobs[j].exists /\ jobs'[j].status = "Running" /\ jobs[j].status # "Running")
                 => jobs[j].status = "Queued")
          /\ ((jobs[j].exists /\ jobs'[j].started_at # jobs[j].started_at)
                 => jobs[j].status = "Queued")]_vars

\* --- claims about the stage drivers (SpecExec)
Positions == 1..Len(ex.trace)

\* C6: stages are processed one at a time in declaration order: whatever is
\* invoked next after a stage's script is entered is that script's return, the
\* invocations never go back to an earlier stage, and no script is entered
\* twice.
C6_StagesSequential ==
    /\ \A p, q \in Positions : p < q => ex.trace[p].stage <= ex.trace[q].stage
    /\ \A p, q \in Positions :
          (p < q /\ ex.trace[p].kind = "script" /\ ex.trace[q].kind = "script")
             => ex.trace[p].stage < ex.trace[q].stage
    /\ \A p \in Positions :
          (ex.trace[p].kind = "script" /\ p < Len(ex.trace))
             => /\ ex.trace[p + 1].kind = "return"
                /\ ex.trace[p + 1].stage = ex.trace[p].stage

\* two stages ran to the end, one after the other
C6_Witness ==
    /\ ex.pc = "returned"
    /\ \E p, q \in Positions :
          /\ ex.trace[p] = Ev("return", 1, "ok")
          /\ ex.trace[q] = Ev("script", 2, "called")

\* C7: when a stage script raises, nothing of a later stage is invoked, the
\* driver returns a failure with exit code 1 whose message names the stage,
\* and the completion request built from that result carries status Failed.
C7_StageRaiseFails ==
    \A p \in Positions :
        (ex.trace[p].kind = "return" /\ ex.trace[p].outcome = "raise")
           => /\ p = Len(ex.trace)
              /\ ex.pc = "returned"
              /\ ex.result = [present |-> TRUE, success |-> FALSE, exit_code |-> 1,
                              error_message |-> Msg("Stage failed", ex.trace[p].stage)]
              /\ sent.present => (sent.status = "Failed" /\ sent.result = ex.result)

\* the first of two stages raised and the completion request was built
C7_Witness ==
    /\ Len(definition.stages) = 2
    /\ sent.present
    /\ \E p \in Positions : ex.trace[p] = Ev("return", 1, "raise")

C8_WitnessRaise ==
    /\ driver = "LuaExecutor"
    /\ \E p \in Positions : ex.trace[p].kind = "condition" /\ ex.trace[p].outcome = "raise"

\* ------------------------------------------------------ runner claims
LeaseFailed(j) == worker[j].lease \in {"refused", "error"}

\* C5: a worker whose lease call failed, because the orchestrator refused it
\* or for any other error, has invoked no stage script of its job, has
\* started no log shipper, has shipped no logs and has not called
\* complete-job, and it never will: its task has ended.
C5_FailedLeaseDoesNothing ==
    \A j \in Jobs : LeaseFailed(j) =>
        /\ worker[j].pc = "done"
        /\ worker[j].ex = ExecStart
        /\ shipper[j] = "none"
        /\ logBuf[j] = <<>>
        /\ ~worker[j].shipped
        /\ worker[j].completes = 0
        /\ req[W(j)].op # "complete"

\* a worker lost the race: the orchestrator refused its lease, the job runs
\* for the other runner
C5_Witness ==
    \E j \in Jobs :
        /\ worker[j].lease = "refused" /\ worker[j].pc = "done"
        /\ jobs[j].status = "Running" /\ jobs[j].runner_id = OtherRunnerId

\* C9: the workers a runner has started and that have not finished are never
\* more than max_parallel_jobs.
C9_InFlightWithinPermits == Cardinality(InFlight) <= max_parallel_jobs

\* a fetch_scheduled_jobs call returns in this step
Fetched == poller'.polls # poller.polls /\ poller'.fetched

\* the listing holds exactly the jobs that are Queued, each once
ExactlyQueued(s) ==
    /\ Listed(s) = {j \in Jobs : jobs[j].exists /\ jobs[j].status = "Queued"}
    /\ \A i, k \in 1..Len(s) : i # k => s[i] # s[k]

\* the listing is ordered by request time, oldest first
OldestFirst(s) ==
    \A i, k \in 1..Len(s) : i < k => jobs[s[i]].requested_at <= jobs[s[k]].requested_at

RECURSIVE Flatten(_)
\* the batches of a sequence of batches, one after the other
Flatten(batches) ==
    IF batches = <<>> THEN <<>> ELSE Head(batches) \o Flatten(Tail(batches))

\* the entries appended so far, in the order they were appended
AppendedSoFar == [i \in 1..appended |-> i]

\* C11: however appends and drains interleave, the batches the drains have
\* returned followed by what is in the buffer are the appended entries, each
\* once and in append order, and the buffer is empty right after a drain.
C11_BufferKeepsEntries ==
    /\ [](Flatten(drained) \o log_buffer = AppendedSoFar)
    /\ [][drained' # drained => log_buffer' = <<>>]_vars

\* two drains, by the sender and by the final flush, with appends before and
\* between them
C11_Witness ==
    /\ Len(drained) >= 2 /\ appended = MaxEntries
    /\ log_sender.state = "aborted" /\ log_buffer = <<>>

\* C12: the entries the orchestrator has received for the job, over all
\* shipments, are in the order the worker appended them: no entry drained
\* later comes before one drained earlier.
C12_DeliveredInAppendOrder ==
    \A i, k \in 1..Len(job_logs) : i < k => job_logs[i] < job_logs[k]

\* the entries the orchestrator has stored
Stored == {job_logs[i] : i \in 1..Len(job_logs)}

\* C13: a batch whose POST failed is sent again later, so that once the
\* worker has finished, with the orchestrator reachable for its last
\* shipment and no request left on its way, every entry the job appended is
\* stored.
C13_EveryEntryStored ==
    (flusher.pc = "done" /\ flusher.sent = "ok" /\ ~log_sender.batch.present)
        => \A e \in 1..appended : e \in Stored

\* ------------------------------------------------ launch parameter claims
\* a launch request was answered in this step
LaunchStep == launch'.resp # "none" /\ (launch' # launch \/ jobs' # jobs)

\* the request lacks input k, which is declared, required and has no default
Lacks(k) ==
    /\ inputs[k].declared /\ inputs[k].required /\ inputs[k].default = NoValue
    /\ request[k] = NoValue
\* the request supplies k with a value of another type than the declared one
Mistyped(k) ==
    inputs[k].declared /\ request[k] # NoValue /\ request[k].type # inputs[k].input_type
\* the request supplies k with a value that equals no entry of its options
Unlisted(k) ==
    /\ inputs[k].declared /\ request[k] # NoValue /\ inputs[k].options.present
    /\ \A i \in 1..Len(inputs[k].options.list) : inputs[k].options.list[i] # request[k]
Offending(k) == Lacks(k) \/ Mistyped(k) \/ Unlisted(k)

\* C14 as stated: a launch whose mapping lacks a declared input that is
\* required and has no default fails with a validation error (400) that
\* names that input, and creates no job.
C14_MissingRequiredNamed ==
    [][LaunchStep => \A k \in InputNames : Lacks(k) =>
          /\ launch'.resp = "400"
          /\ launch'.error = ValidationError("MissingRequiredInput", k)
          /\ launch'.job = 0 /\ jobs' = jobs]_vars

\* C14, amended: such a launch fails with a validation error (400) and
\* creates no job; the error is the one of whichever offending input the
\* validation reaches first, so it names the missing input when no other
\* declared input is missing, mistyped or outside its options.
C14_MissingRequiredFails ==
    [][LaunchStep => \A k \in InputNames : Lacks(k) =>
          /\ launch'.resp = "400"
          /\ launch'.error # NoError
          /\ launch'.job = 0 /\ jobs' = jobs
          /\ (\A m \in InputNames \ {k} : ~Offending(m)) =>
                launch'.error = ValidationError("MissingRequiredInput", k)]_vars

\* a launch that lacked "k" was answered with the error naming "k"
C14_Witness ==
    /\ Lacks("k") /\ ~Offending("n") /\ inputs["n"].declared
    /\ launch.resp = "400"
    /\ launch.error = ValidationError("MissingRequiredInput", "k")
    /\ \A j \in Jobs : ~jobs[j].exists

\* the request supplies every required input with a value of the declared type
SuppliesRequired ==
    \A k \in InputNames : (inputs[k].declared /\ inputs[k].required) =>
        request[k] # NoValue /\ request[k].type = inputs[k].input_type

\* C15 as stated: when the caller mapping contains every required input with
\* a value of the declared type, validation succeeds and every declared input
\* appears in the output, with the caller's value when supplied and with its
\* default otherwise; the created job's parameters are that output.
C15_EveryDeclaredInputAppears ==
    [][(LaunchStep /\ SuppliesRequired) =>
          /\ launch'.resp = "200"
          /\ launch'.job \in Jobs
          /\ \A k \in Declared(inputs) :
                LET out == jobs'[launch'.job].parameters[k] IN
                /\ out # NoValue
                /\ out = IF request[k] # NoValue THEN request[k] ELSE inputs[k].default]_vars

\* C15, amended: when no declared input is missing, mistyped or outside its
\* options list, validation succeeds; every declared input that is supplied
\* or has a default appears in the output, with the caller's value when
\* supplied and with its default otherwise; a declared input that is neither
\* supplied nor defaulted is left out; keys the schema does not declare are
\* passed through; the created job's parameters are that output.
C15_SuppliedOrDefaultedAppears ==
    [][(LaunchStep /\ \A k \in InputNames : ~Offending(k)) =>
          /\ launch'.resp = "200"
          /\ launch'.job \in Jobs
          /\ \A k \in InputNames :
                jobs'[launch'.job].parameters[k] =
                    IF request[k] # NoValue THEN request[k]
                    ELSE IF inputs[k].declared THEN inputs[k].default
                    ELSE NoValue]_vars

\* a launch adopted the default of one input, kept the caller's value of
\* another, and the job holds both
C15_Witness ==
    /\ Declared(inputs) = InputNames
    /\ request["k"] # NoValue /\ request["n"] = NoValue
    /\ inputs["n"].default # NoValue
    /\ launch.resp = "200" /\ launch.job = 1
    /\ jobs[1].parameters["k"] = request["k"]
    /\ jobs[1].parameters["n"] = inputs["n"].default

\* C16: for a declared input, a supplied value whose type differs from the
\* declared type, or that equals no entry of the input's options list, makes
\* the launch fail with 400 and creates no job; a launch whose supplied values
\* all have the declared type and equal one of the options is accepted.
C16_BadValueRejected ==
    [][LaunchStep =>
          /\ \A k \in InputNames : (Mistyped(k) \/ Unlisted(k)) =>
                /\ launch'.resp = "400"
                /\ launch'.job = 0 /\ jobs' = jobs
          /\ (\A k \in InputNames : ~Offending(k)) => launch'.resp = "200"]_vars

\* C17: validation is idempotent on its own output: a launch whose request is
\* the validated and defaulted mapping of an earlier successful launch of the
\* same pipeline succeeds too, and stores that same mapping, whatever the
\* defaults that were adopted.
C17_ValidateIdempotent ==
    [][(LaunchStep /\ jobs[1].exists /\ request = jobs[1].parameters) =>
          /\ launch'.resp = "200"
          /\ launch'.job = 2
          /\ jobs'[2].parameters = jobs[1].parameters]_vars

\* -------------------------------------------------- job row claims
\* C18: in every reachable state of a job: while Queued, started_at,
\* runner_id, completed_at and result are all unset; while Running, started_at
\* and runner_id are set and completed_at is unset; in Succeeded, Failed or
\* TimedOut, started_at, runner_id and completed_at are all set.
C18_FieldsFollowStatus ==
    \A j \in Jobs : jobs[j].exists =>
        /\ jobs[j].status = "Queued" =>
              /\ jobs[j].started_at = Null /\ jobs[j].runner_id = NoRunner
              /\ jobs[j].completed_at = Null /\ ~jobs[j].result.present
        /\ jobs[j].status = "Running" =>
              /\ jobs[j].started_at # Null /\ jobs[j].runner_id # NoRunner
              /\ jobs[j].completed_at = Null
        /\ jobs[j].status \in {"Succeeded", "Failed", "TimedOut"} =>
              /\ jobs[j].started_at # Null /\ jobs[j].runner_id # NoRunner
              /\ jobs[j].completed_at # Null

\* C19: for every job and in every reachable state, the timestamps that are
\* set satisfy requested_at <= started_at <= completed_at, under every
\* interleaving of lease, complete and cancel requests.
C19_TimestampsMonotonic ==
    \A j \in Jobs : jobs[j].exists =>
        /\ jobs[j].started_at # Null => jobs[j].requested_at <= jobs[j].started_at
        /\ jobs[j].completed_at # Null => jobs[j].requested_at <= jobs[j].completed_at
        /\ (jobs[j].started_at # Null /\ jobs[j].completed_at # Null) =>
              jobs[j].started_at <= jobs[j].completed_at

\* C20: a job's parameter mapping is fixed when the job is created: no lease,
\* complete, cancel or log-append step changes it, and the mapping a
\* successful lease returns is the validated and defaulted mapping that was
\* stored at launch.
C20_ParametersFrozen ==
    /\ [][\A j \in Jobs : jobs[j].exists => jobs'[j].parameters = jobs[j].parameters]_vars
    /\ [][\A j \in Jobs : (~jobs[j].exists /\ jobs'[j].exists) =>
              jobs'[j].parameters = enrich(inputs, request)]_vars
    /\ [][\A h \in Handlers :
              (req[h].op = "lease" /\ req[h].pc = "update" /\ req'[h].resp = "200") =>
                  /\ req'[h].parameters = jobs[req[h].job].parameters
                  /\ req'[h].parameters = enrich(inputs, request)]_vars

\* a job with an adopted default was leased, completed and had log rows
\* appended, and the lease returned the mapping with that default
C20_Witness ==
    /\ jobs[1].exists /\ jobs[1].status \in TerminalStatus
    /\ jobs[1].completed_at # Null /\ jobs[1].runner_id # NoRunner
    /\ jobs[1].parameters["n"] = JsonValue("string", "b")
    /\ jobs[1].parameters["k"] = JsonValue("string", "a")
    /\ request["n"] = NoValue
    /\ Len(job_logs) > 0
    /\ \E h \in Handlers :
          /\ req[h].op = "lease" /\ req[h].resp = "200" /\ req[h].job = 1
          /\ req[h].parameters = jobs[1].parameters

\* ------------------------------------------------ completion status claims
\* a complete-job call for job j with the given status arrives in this step
\* at handler h, and the job exists
CompleteArrives(h) ==
    /\ req[h].op = "none" /\ req'[h].op = "complete"
    /\ jobs[req'[h].job].exists

\* C21: a complete-job call for a job, whose requested status is Queued or
\* Running, is answered 400 at once and changes nothing of the job (no later
\* step of that request exists); a call with Succeeded, Failed, TimedOut or
\* Cancelled passes the status check and goes on to its update.
C21_NonTerminalCompletionRejected ==
    /\ [][\A h \in Handlers : CompleteArrives(h) =>
             IF req'[h].status \in {"Queued", "Running"}
             THEN /\ req'[h].resp = "400" /\ req'[h].pc = "done"
                  /\ jobs' = jobs
             ELSE /\ req'[h].status \in {"Succeeded", "Failed", "TimedOut", "Cancelled"}
                  /\ req'[h].resp = "none" /\ req'[h].pc = "update"]_vars
    /\ [][\A h \in Handlers :
             (req[h].op = "complete" /\ req[h].status \in {"Queued", "Running"}) =>
                 req'[h] = req[h]]_vars

\* a complete-job call with status Running for a job that is Running was
\* answered 400 and the job is still Running, not completed, without result
C21_Witness ==
    \E h \in Handlers :
        /\ req[h].op = "complete" /\ req[h].status = "Running" /\ req[h].resp = "400"
        /\ jobs[req[h].job].exists /\ jobs[req[h].job].status = "Running"
        /\ jobs[req[h].job].completed_at = Null /\ ~jobs[req[h].job].result.present

\* ------------------------------------------------------ timeout claims
\* C22: a worker whose job execution exceeds the configured per-job timeout
\* stops executing the job, and the job is reported to the orchestrator with
\* status TimedOut and a result with success = false and exit code 124.
C22_TimeoutReported ==
    /\ elapsed > job_timeout => ex.pc = "returned"
    /\ (sent.present /\ elapsed > job_timeout) =>
          /\ sent.status = "TimedOut"
          /\ ~sent.result.success /\ sent.result.exit_code = 124

\* ------------------------------------------------------ no-retry claims
\* C23: a worker calls complete-job at most once for the job it leased, and a
\* job whose execution failed (its status is Failed) is never leased again:
\* no later step makes it Running or gives it to a runner.
C23_NoRetryAfterFailure ==
    /\ [][\A j \in Jobs : worker'[j].completes <= 1]_vars
    /\ [][\A j \in Jobs : (jobs[j].exists /\ jobs[j].status = "Failed") =>
             /\ jobs'[j].status # "Running"
             /\ jobs'[j].runner_id = jobs[j].runner_id
             /\ jobs'[j].started_at = jobs[j].started_at]_vars

\* ------------------------------------------------------ capability claims
\* C24: a poll with the runner_id of a registered runner that declared
\* capabilities returns only Queued jobs whose pipeline's runner tags are a
\* subset of those capabilities.
C24_ListingMatchesCapabilities ==
    [][Fetched => \A i \in 1..Len(polled') :
          /\ jobs[polled'[i]].status = "Queued"
          /\ pipeline_tags[polled'[i]] \subseteq capabilities]_vars

\* ------------------------------------------------------------------ C25
CreateStep == created.resp = "none" /\ created'.resp # "none"

\* the failures the parse of a definition reports: a syntax error, a missing
\* name, missing or empty stages, a stage without a name or without a script,
\* an input without a type
FailsToParse(script) ==
    \/ ~script.syntax
    \/ ~script.has_name
    \/ script.stages \in {"missing", "empty"}
    \/ script.stages = "one" /\ (~script.stage_name \/ ~script.stage_script)
    \/ script.inputs = "untyped"

\* C25: a create request whose script fails to parse is answered with a
\* validation error (400) and stores nothing, and every stored pipeline has
\* a name and at least one stage
C25_UnparsableRejected ==
    [][/\ CreateStep /\ FailsToParse(create_req.script)
          => created'.resp = "400" /\ pipelines' = pipelines
       /\ \A i \in 1..Len(pipelines') :
            pipelines'[i].has_name /\ pipelines'[i].stages = "one"]_vars

\* what the code does keep: nothing unparsable is stored
C25_UnparsableNotStored ==
    [][/\ CreateStep /\ FailsToParse(create_req.script)
          => created'.resp \in {"400", "500"} /\ pipelines' = pipelines
       /\ \A i \in 1..Len(pipelines') : ~FailsToParse(pipelines'[i])]_vars

\* ------------------------------------------------------------------ C26
\* a container.run call whose fn was invoked returns
RunReturns == Len(frames') = Len(frames) - 1

\* a container.run call invokes its fn
RunInvokes == Len(frames') = Len(frames) + 1

\* the `podman run` of a container.run call fails
RunStartFails ==
    /\ ensure["lua"].pc = "starting" /\ ensure'["lua"].pc = "idle"
    /\ starts' = starts

\* C26: container.run pushes the container of its image and invokes fn; when
\* fn returns or raises it pops exactly once and the stack is again the stack
\* before the call; when the container cannot be started nothing is pushed,
\* fn is not invoked and the error is raised
C26_RunRestoresStack ==
    [][/\ RunInvokes =>
            /\ frames'[Len(frames')].before = stack
            /\ stack' = Append(stack, generate_container_name(frames'[Len(frames')].image))
       /\ RunReturns =>
            /\ Len(stack') = Len(stack) - 1
            /\ stack' = frames[Len(frames)].before
            /\ lua_result'.op = "container.run"
       /\ RunStartFails =>
            /\ stack' = stack /\ frames' = frames
            /\ lua_result'.error = "Failed to start container"]_vars

\* fn of an inner container.run raised inside an outer one: the inner
\* container is popped, the outer one is the current container again
C26_Witness ==
    /\ lua_result = LuaResult("container.run", "raised", NoHandle)
    /\ Len(frames) = 1 /\ frames[1].image = "A"
    /\ stack = <<generate_container_name("A")>>
    /\ starts["B"] = 1

\* ------------------------------------------------------------------ C27
\* C27: a command of process.run executes in the container at the top of the
\* stack, which is the container of the innermost container.run whose fn is
\* executing; with an empty stack process.run fails with the no-active-
\* container error and executes nothing
C27_ExecInTopContainer ==
    [][/\ execs' # execs =>
            /\ stack # <<>>
            /\ execs' = Append(execs, stack[Len(stack)])
            /\ frames # <<>> =>
                 stack[Len(stack)] = generate_container_name(frames[Len(frames)].image)
       /\ (lua_result' # lua_result /\ lua_result'.op = "process.run" /\ stack = <<>>) =>
            /\ lua_result'.error = "No active container in stack"
            /\ execs' = execs]_vars

\* container.run("A", function() container.run("B", function() process.run{}
\* end); process.run{} end): the commands ran in B's container, then in A's
C27_Witness ==
    /\ execs = <<generate_container_name("B"), generate_container_name("A")>>
    /\ Len(frames) = 1 /\ frames[1].image = "A"

\* ------------------------------------------------------------------ C28
\* C28: while the script of a stage that declares a container image runs
\* (outside any container.run of its own), the current container is the one
\* of the stage's image, and when the script returns the stack is the stack
\* before the stage
C28_StageContainerPushed ==
    /\ (stage_call.pc = "running" /\ stage_call.container # NoImage /\ frames = <<>>)
          => current_container(stack) = generate_container_name(stage_call.container)
    /\ (stage_call.pc \in {"idle", "done"}) => stack = stage_call.before

\* ------------------------------------------------------------------ C29
\* C29: at most one container is started per image; while an image has a
\* handle no container is started for it and the handle stays, whichever
\* callers ask for it at the same time; a failed start records no handle
C29_OneContainerPerImage ==
    [][/\ \A i \in Images : starts'[i] <= 1
       /\ \A i \in Images : containers[i] # NoHandle =>
            starts'[i] = starts[i] /\ containers'[i] = containers[i]
       /\ \A c \in Callers :
            (ensure[c].pc = "starting" /\ ensure'[c].pc = "idle" /\ starts' = starts)
               => containers' = containers]_vars

\* container.run("A", ...) inside container.run("A", ...): the second call
\* found the handle, the one container of A is on the stack twice; a start
\* of B failed and left no handle
C29_Witness ==
    /\ stack = <<generate_container_name("A"), generate_container_name("A")>>
    /\ starts["A"] = 1
    /\ containers["B"] = NoHandle /\ starts["B"] = 0
    /\ lua_result.error = "Failed to start container"

\* ------------------------------------------------------------------ C30
\* C30 as stated: cleanup returns Ok and after it no container started for
\* the job is left in the runtime
C30_NothingRemains ==
    manager.pc \in {"cleaned", "dropped"} => manager.result = "Ok" /\ runtime = {}

\* C30: every started container is registered; cleanup returns Ok also when
\* a remove fails, run once or again on drop; after it the containers of the
\* job left in the runtime are only those whose force-remove failed in that
\* run, and a later run leaves no more than the earlier one
C30_OnlyFailedRemovesRemain ==
    [][/\ runtime' \subseteq tracked(containers')
       /\ manager'.pc \in {"cleaned", "dropped"} =>
            /\ manager'.result = "Ok"
            /\ runtime' \subseteq manager'.failed
       /\ manager'.runs > manager.runs => runtime' \subseteq runtime]_vars

\* both containers were started, cleanup ran on termination and again on
\* drop, and nothing is left
C30_Witness ==
    /\ manager.pc = "dropped" /\ manager.runs = 2
    /\ starts["A"] = 1 /\ starts["B"] = 1
    /\ runtime = {}

\* ------------------------------------------------------------------ C31
\* the answer holds exactly the stored rows
ReadIsComplete ==
    /\ Len(log_read.entries) = Len(log_rows)
    /\ {log_read.entries[i] : i \in 1..Len(log_read.entries)}
          = {log_rows[i] : i \in 1..Len(log_rows)}

\* C31: GET logs returns all stored entries in non-decreasing timestamp
\* order, and entries with equal timestamps in their order of arrival
C31_ReadOrderedTiesByArrival ==
    [][(log_read' # log_read) =>
          /\ ReadIsComplete'
          /\ \A i, k \in 1..Len(log_read'.entries) : i < k =>
                \/ log_read'.entries[i].timestamp < log_read'.entries[k].timestamp
                \/ /\ log_read'.entries[i].timestamp = log_read'.entries[k].timestamp
                   /\ log_read'.entries[i].message < log_read'.entries[k].message]_vars

\* what the query does give: all stored entries, timestamps non-decreasing
C31_ReadOrderedByTimestamp ==
    [][(log_read' # log_read) =>
          /\ ReadIsComplete'
          /\ \A i, k \in 1..Len(log_read'.entries) : i < k =>
                log_read'.entries[i].timestamp <= log_read'.entries[k].timestamp]_vars
\* ------------------------------------------------------------------ C32
RegisterStep(id) ==
    registry_resp' # registry_resp /\ registry_resp'.op = "register" /\ registry_resp'.id = id

\* C32: registering a runner id leaves exactly one record for it, Online and
\* with the heartbeat of the registration; a second registration keeps the
\* first record's registered_at and every other runner's record, so that
\* registering twice gives the records of registering once, the heartbeat
\* refreshed
C32_RegisterIdempotent ==
    [][\A id \in RunnerIds : RegisterStep(id) =>
          /\ Cardinality(RowsOfRunner(runners', id)) = 1
          /\ \A r \in RowsOfRunner(runners', id) :
                /\ r.status = "Online" /\ r.last_heartbeat_at = utc_now
                /\ \A old \in RowsOfRunner(runners, id) : r.registered_at = old.registered_at
          /\ {r \in runners' : r.id # id} = {r \in runners : r.id # id}
          /\ \A t \in utc_now..MaxNow :
                register(runners', id, t) = update_heartbeat(runners', id, t)]_vars

\* a runner registered again at a later time: one record, the first
\* registration time, the later heartbeat
C32_Witness ==
    /\ registry_resp = RegistryResp("register", "r1", TRUE, "200")
    /\ \E r \in runners : r.id = "r1" /\ r.registered_at < r.last_heartbeat_at
                          /\ r.last_heartbeat_at = utc_now
    /\ Cardinality(runners) = 2

\* ------------------------------------------------------------------ C33
\* C33: a runner whose last heartbeat is older than the threshold is marked
\* Offline by the periodic sweep, at the latest one sweep period after it
\* became stale; the sweep marks no runner whose heartbeat is within the
\* threshold
C33_StaleMarkedOffline ==
    /\ \A r \in runners :
          r.last_heartbeat_at < utc_now - timeout_seconds - SweepPeriod => r.status = "Offline"
    /\ \A r \in mark_stale_runners_offline(runners, utc_now, timeout_seconds) :
          r.last_heartbeat_at >= utc_now - timeout_seconds => r.status = "Online"
\* ------------------------------------------------------------------ C34
Removed == {"io", "os", "require", "dofile", "loadfile"}

Provided == {"table", "string", "math", "coroutine", "pipeline"}

\* C34: in a sandbox made by create_sandbox io, os, require, dofile and
\* loadfile are not among the globals, so a script that uses one of them
\* fails and has no effect; table, string, math, coroutine and pipeline are
\* there and usable
C34_SandboxRestricted ==
    /\ sandbox_pc = "ready" => (Removed \cap globals = {} /\ Provided \subseteq globals)
    /\ Removed \cap effects = {}
    /\ Provided \cap errors = {}

\* a script tried every removed facility and failed, and used every provided
\* library
C34_Witness ==
    /\ sandbox_pc = "ready"
    /\ Removed \subseteq errors
    /\ Provided \subseteq effects

\* ------------------------------------------------------------------ C35
\* C35: the polling loop does not wait for the workers it spawned: while a
\* worker started in an earlier tick is still executing, the poller is free
\* to take its next tick
C35_PollerDoesNotWait ==
    InFlight # {} => poller.pc = "idle"

\* what the code does: a poll only happens when no worker is in flight
C35_PollOnlyWhenNoWorker ==
    [][poller'.polls > poller.polls => InFlight = {}]_vars

\* ------------------------------------------------------------------ C36
CompleteCalled == task_note'.completes > task_note.completes

\* C36: when the worker calls complete-job the log sender is not running any
\* more and, after an execution, the residual logs were drained and their
\* shipment was attempted (or nothing remained); the orchestrator receives
\* no final shipment after the complete-job call, and a failed final
\* shipment is followed by the complete-job call
C36_FlushBeforeComplete ==
    [][/\ CompleteCalled =>
            /\ task_sender # "running"
            /\ task_note.final # "sending"
            /\ task_sender = "aborted" =>
                  task_buffer = 0 /\ task_note.final \in {"empty", "ok", "err"}
       /\ \A i, k \in 1..Len(received') :
            (i < k /\ received'[i] = "complete") => received'[k] # "final_logs"
       /\ (task_pc' = "done" /\ task_note'.final = "err") => task_note'.completes = 1]_vars

\* the final shipment reached the orchestrator and failed there, and the
\* complete-job call followed
C36_Witness ==
    /\ task_pc = "done"
    /\ task_note.final = "err" /\ task_note.completes = 1
    /\ task_sender = "aborted"
    /\ received = <<"final_logs", "complete">>

CompleteReceived == \E i \in 1..Len(received) : received[i] = "complete"

\* C39: with the orchestrator reachable and the execution service of the
\* repository, a job the worker has leased eventually gets its complete-job
\* call, also when the pipeline does not parse
C39_LeasedJobCompleted ==
    (task_note.lease = "ok" /\ reachable /\ execution_service = "StandardExecutionService")
        ~> CompleteReceived

\* the lease succeeded, the pipeline did not parse, complete-job was received
C39_Witness ==
    /\ task_pc = "done"
    /\ task_note.lease = "ok" /\ reachable
    /\ execution_service = "StandardExecutionService"
    /\ task_sender = "none"
    /\ received = <<"complete">>

\* ------------------------------------------------------------------ C37
\* a complete-job call for job j that carried a result has written its
\* terminal status
CompletedWithResult(j) ==
    \E h \in Handlers :
        /\ req[h].op = "complete" /\ req[h].job = j
        /\ req[h].result.present
        /\ req[h].pc \in {"result", "done"}
        /\ jobs[j].status = req[h].status

\* C37: a leased job that is Succeeded, Failed or TimedOut as the effect of a
\* complete-job call that carried a result has that result stored: the
\* terminal status is never readable while the result is still absent
C37_TerminalStatusHasResult ==
    \A j \in Jobs :
        (/\ jobs[j].exists /\ jobs[j].started_at # Null
         /\ jobs[j].status \in {"Succeeded", "Failed", "TimedOut"}
         /\ CompletedWithResult(j))
            => jobs[j].result.present

====
